---- MODULE Spec2Model ----
(***************************************************************************)
(* Model of the Master Compensation Engine (src/src/economics/ledger.py):  *)
(* the in-memory ledger, the ledger lock, the ledger file and its          *)
(* temporary side file, the constructor, and the operations create_agent,  *)
(* transfer_funds, update_agent_performance, get_ledger_snapshot and       *)
(* get_agent_balance called from several threads.                          *)
(*                                                                         *)
(* Money is a Python float in the source.  The model draws balances and    *)
(* amounts from whole numbers of APX, on which binary floating-point       *)
(* addition, subtraction and comparison are exact.  Timestamps, agent     *)
(* names and pay rates are written by the code but never read by it and    *)
(* are left out of the records.                                            *)
(*                                                                         *)
(* The module also models the hook manager (src/src/hooks/__init__.py:     *)
(* the manifest, the sorted hook list and execute_phase; specification     *)
(* SpecHooks) and the MCP server (src/src/mcp/server.py: handle_request    *)
(* and its handlers; specification SpecMCP).  Each specification leaves    *)
(* the variables of the other components at their initial values.          *)
(***************************************************************************)
EXTENDS Integers, Sequences, FiniteSets, TLC

(***************************************************************************)
(* Bounds of the model.                                                    *)
(***************************************************************************)
NumThreads == 2
AmountUnit == 50
MaxUnits == 5
MaxTx == 1

(***************************************************************************)
(* Program constants.                                                      *)
(***************************************************************************)
INITIAL_SYSTEM_BANK_BALANCE == 10000
INITIAL_AGENT_BALANCE == 100
DEFAULT_DEBT_CEILING == 0 - 100
LEDGER_VERSION == "3.0.1"
SYSTEM_CURRENCY == "APX"

Threads == 1..NumThreads
Ctor == 0
Procs == Threads \cup {Ctor}
NoHolder == 0 - 1

AgentIds == {"agent_a", "agent_b", "system_bank"}
Amounts == {AmountUnit * k : k \in (0 - MaxUnits)..MaxUnits}
Tiers == {"novice", "expert"}
StreakArgs == {<<>>, <<5>>}
RateArgs == {<<>>, <<95>>}

\* An optional value is a sequence of length 0 (None) or 1.
None == <<>>
Some(x) == <<x>>

(***************************************************************************)
(* Dataclass defaults and the blank ledger.                                *)
(***************************************************************************)
AgentFinancials ==
    [balance |-> INITIAL_AGENT_BALANCE, escrow_hold |-> 0,
     lifetime_earnings |-> 0, debt_ceiling |-> DEFAULT_DEBT_CEILING]

\* Rates are held in hundredths: reputation_score 0.5 is 50.
AgentPerformance ==
    [streak |-> 0, success_rate |-> 0, avg_token_efficiency |-> 0,
     reputation_score |-> 50]

NewAgent(tier) ==
    [financials |-> AgentFinancials, performance |-> AgentPerformance,
     metadata |-> [tier |-> tier]]

create_empty_ledger ==
    [metadata |-> [version |-> LEDGER_VERSION, currency |-> SYSTEM_CURRENCY],
     system_bank |-> [balance |-> INITIAL_SYSTEM_BANK_BALANCE,
                      total_tax_collected |-> 0, total_bonds_burned |-> 0],
     agents |-> [a \in {} |-> NewAgent("novice")],
     transaction_log |-> <<>>]

(***************************************************************************)
(* json.dump / json.load of the ledger: the agents dictionary becomes the  *)
(* set of members of a JSON object and is rebuilt from them on load.       *)
(***************************************************************************)
JsonDump(l) ==
    [metadata |-> l.metadata, system_bank |-> l.system_bank,
     agents |-> {<<k, l.agents[k]>> : k \in DOMAIN l.agents},
     transaction_log |-> l.transaction_log]

JsonLoad(d) ==
    [metadata |-> d.metadata, system_bank |-> d.system_bank,
     agents |-> [k \in {m[1] : m \in d.agents} |->
                    (CHOOSE m \in d.agents : m[1] = k)[2]],
     transaction_log |-> d.transaction_log]

\* The ledger after create_agent has been called for the agents of S.
LedgerWith(S) ==
    [create_empty_ledger EXCEPT !.agents = [a \in S |-> NewAgent("novice")]]

\* The content of a file on disk: the complete text of a dump, or the
\* truncated or half-written text that json.load cannot parse.
Partial == <<>>
Complete(d) == <<d>>
IsComplete(content) == content # Partial

(***************************************************************************)
(* The calls a thread can make.                                            *)
(***************************************************************************)
CreateCalls ==
    [op : {"create_agent"}, agent_id : AgentIds, tier : Tiers]
TransferCalls ==
    [op : {"transfer_funds"}, from_agent : AgentIds, to_agent : AgentIds,
     amount : Amounts]
UpdateCalls ==
    [op : {"update_agent_performance"}, agent_id : AgentIds,
     streak : StreakArgs, success_rate : RateArgs]
SnapshotCalls == [op : {"get_ledger_snapshot"}]
LockedCalls == CreateCalls \cup TransferCalls \cup UpdateCalls \cup SnapshotCalls
NoCall == [op |-> "none"]

NoTx == [tx_id |-> 0, from |-> "", to |-> "", amount |-> 0,
         type |-> "", checksum |-> <<>>]

\* Mutant of compute_transaction_checksum: the amount is left out of the
\* serialized text.
checksum_without_amount(tx) ==
    <<"sha256", "json.dumps",
      <<"from", tx.from>>, <<"to", tx.to>>,
      <<"tx_id", tx.tx_id>>, <<"type", tx.type>>>>

\* sha256(json.dumps(tx without checksum, sort_keys=True)): the digest is
\* taken as injective on the serialized text, which lists the keys in order.
compute_transaction_checksum(tx) ==
    <<"sha256", "json.dumps",
      <<"amount", tx.amount>>, <<"from", tx.from>>, <<"to", tx.to>>,
      <<"tx_id", tx.tx_id>>, <<"type", tx.type>>>>

\* The ledger after agent_a and agent_b were created and 30 APX moved.
LedgerAfterTransfer ==
    LET l == LedgerWith({"agent_a", "agent_b"})
        t0 == [tx_id |-> 0, from |-> "agent_a", to |-> "agent_b", amount |-> 30,
               type |-> "TRANSFER", checksum |-> <<>>]
    IN  [l EXCEPT !.agents["agent_a"].financials.balance = @ - 30,
                  !.agents["agent_b"].financials.balance = @ + 30,
                  !.transaction_log =
                      <<[t0 EXCEPT !.checksum = compute_transaction_checksum(t0)]>>]

\* The ledger file is an input of the program: the constructor loads
\* whatever file exists at the ledger path.  It is absent, or it holds a
\* ledger in which agents have been created, or one in which a transfer has
\* also been made.
AgentOrder == <<"agent_a", "agent_b", "system_bank">>
CreatedLedgers == {LedgerWith({AgentOrder[i] : i \in 1..n}) : n \in 0..Len(AgentOrder)}
InitialFiles ==
    {None} \cup {Some(Complete(JsonDump(l))) : l \in CreatedLedgers \cup {LedgerAfterTransfer}}

VARIABLES
    ledger,        \* self._ledger
    lock,          \* self._lock: NoHolder or the process that acquired it
    file,          \* the ledger file: None or Some(content)
    tmp,           \* the .tmp side file: None or Some(content)
    ctor,          \* position of the constructor
    pc,            \* position of each thread
    call,          \* the call a thread is making inside its critical section
    tx,            \* the tx dictionary built by the thread's transfer_funds
    pre,           \* the ledger when the thread's call entered its critical section
    uuid_next,     \* source of fresh transaction ids (uuid4)
    verified,      \* whether the thread's call has run verify_all_invariants
    last           \* the call that returned most recently, until a critical
                   \* section is entered again: call, result, and the ledger
                   \* before the call and at its return

ledger_vars ==
    <<ledger, lock, file, tmp, ctor, pc, call, tx, pre, uuid_next, verified, last>>

\* The hook manager (src/src/hooks/__init__.py).
VARIABLES
    manifest,      \* the hooks manifest file: None or Some(list of hook entries)
    hooks,         \* HookManager.hooks
    hm,            \* position of the hook manager and of its execute_phase call
    request,       \* the arguments of the execute_phase call
    relevant,      \* relevant_hooks of the call
    idx,           \* position of the for loop in relevant_hooks
    payload,       \* the local variable payload: None or Some(dictionary)
    invoked,       \* the hooks passed to _execute_hook by the call, in order,
                   \* each with the outcome of its invocation
    result         \* how the call ended and what it returned

hook_vars == <<manifest, hooks, hm, request, relevant, idx, payload, invoked, result>>

\* The MCP server (src/src/mcp/server.py).
VARIABLES
    executions,    \* MCPServer._executions, in order of creation
    handled,       \* handler invocations made for tools/call requests
    response       \* the response to the last request

mcp_vars == <<executions, handled, response>>

\* The Z3 verifier (src/src/citadel/verifier.py).
VARIABLES
    Z3_AVAILABLE,      \* the module global: whether the solver library was imported
    kwargs,            \* the bindings the caller passes to verify_theorem
    verification_log,  \* Z3Verifier.verification_log
    verification       \* the last verify_theorem call and what it returned

verifier_vars == <<Z3_AVAILABLE, kwargs, verification_log, verification>>

\* The security hooks (src/src/hooks/security).
VARIABLES
    executed           \* the execute call of a security hook: the hook, the
                       \* payload it is given, and once it has ended how it
                       \* ended and the payload it returned

security_vars == <<executed>>

\* Citadel (src/src/citadel/__init__.py) and the solver object that the
\* verifier shares between its callers (src/src/citadel/verifier.py).
VARIABLES
    checked,           \* the verify_all_invariants call: its arguments, and
                       \* once it has returned the checks it made and its result
    solver,            \* Z3Verifier.solver: the stack of assertion frames
    caller             \* for each concurrent caller of verify_theorem: its
                       \* position in the solver path, its arguments, its result

citadel_vars == <<checked, solver, caller>>

\* A client of the engine that reads two balances one after the other.
VARIABLES
    observed           \* the thread that reads, the two accounts, and the
                       \* balances get_agent_balance has returned to it so far

reader_vars == <<observed>>

outside_ledger == <<hook_vars, mcp_vars, verifier_vars, security_vars, citadel_vars, reader_vars>>
outside_hooks == <<ledger_vars, mcp_vars, verifier_vars, security_vars, citadel_vars, reader_vars>>
outside_mcp == <<ledger_vars, hook_vars, verifier_vars, security_vars, citadel_vars, reader_vars>>
outside_verifier == <<ledger_vars, hook_vars, mcp_vars, security_vars, citadel_vars, reader_vars>>
outside_security == <<ledger_vars, hook_vars, mcp_vars, verifier_vars, citadel_vars, reader_vars>>
outside_citadel == <<ledger_vars, hook_vars, mcp_vars, security_vars, reader_vars>>
outside_reader == <<hook_vars, mcp_vars, verifier_vars, security_vars, citadel_vars>>

vars ==
    <<ledger_vars, hook_vars, mcp_vars, verifier_vars, security_vars, citadel_vars,
      reader_vars>>

NoRet == [kind |-> "none"]
RetNone == [kind |-> "None"]
RetBool(b) == [kind |-> "bool", val |-> b]
RetTx(id) == [kind |-> "tx_id", val |-> id]
RetError == [kind |-> "RuntimeError"]
RetSnapshot(l) == [kind |-> "snapshot", val |-> l]
RetBalance(b) == [kind |-> "balance", val |-> b]

NoLast ==
    [call |-> NoCall, ret |-> NoRet,
     pre |-> create_empty_ledger, post |-> create_empty_ledger]

(***************************************************************************)
(* The engine before its constructor has run, on a path with no file.      *)
(***************************************************************************)
LedgerOff ==
    /\ ledger = create_empty_ledger
    /\ lock = NoHolder
    /\ file = None
    /\ tmp = None
    /\ ctor = "load"
    /\ pc = [t \in Threads |-> "idle"]
    /\ call = [t \in Threads |-> NoCall]
    /\ tx = [t \in Threads |-> NoTx]
    /\ pre = [t \in Threads |-> create_empty_ledger]
    /\ uuid_next = 1
    /\ verified = [t \in Threads |-> FALSE]
    /\ last = NoLast

(***************************************************************************)
(* The hook manager before its constructor has run.                        *)
(***************************************************************************)
NoRequest == [phase |-> "", target_tool |-> None, payload |-> None]
NoResult == [kind |-> "none"]

HooksOff ==
    /\ manifest = None
    /\ hooks = <<>>
    /\ hm = "new"
    /\ request = NoRequest
    /\ relevant = <<>>
    /\ idx = 0
    /\ payload = None
    /\ invoked = <<>>
    /\ result = NoResult

(***************************************************************************)
(* The MCP server after its constructor: no execution yet.                 *)
(***************************************************************************)
NoResponse == [kind |-> "none"]

MCPOff ==
    /\ executions = <<>>
    /\ handled = <<>>
    /\ response = NoResponse

(***************************************************************************)
(* The verifier before any call, with no solver library.                   *)
(***************************************************************************)
NoKwargs == <<>>
NoVerification == [kind |-> "none"]

VerifierOff ==
    /\ Z3_AVAILABLE = FALSE
    /\ kwargs = NoKwargs
    /\ verification_log = <<>>
    /\ verification = NoVerification

(***************************************************************************)
(* The security hooks before any call.                                     *)
(***************************************************************************)
NoExecuted == [hook |-> "none", kind |-> "none"]

SecurityOff == executed = NoExecuted

(***************************************************************************)
(* Citadel before any call, and the solver with no caller in it.           *)
(***************************************************************************)
NoChecked == [kind |-> "none"]
NoCaller == [pc |-> "idle"]
Callers == 1..2

CitadelOff ==
    /\ checked = NoChecked
    /\ solver = <<>>
    /\ caller = [c \in Callers |-> NoCaller]

(***************************************************************************)
(* No client has read a balance.                                           *)
(***************************************************************************)
NoObserved == [kind |-> "none"]

ReaderOff == observed = NoObserved

Init ==
    /\ ledger = create_empty_ledger
    /\ lock = NoHolder
    /\ file \in InitialFiles
    /\ tmp = None
    /\ ctor = "load"
    /\ pc = [t \in Threads |-> "idle"]
    /\ call = [t \in Threads |-> NoCall]
    /\ tx = [t \in Threads |-> NoTx]
    /\ pre = [t \in Threads |-> create_empty_ledger]
    /\ uuid_next = 1
    /\ verified = [t \in Threads |-> FALSE]
    /\ last = NoLast
    /\ HooksOff
    /\ MCPOff
    /\ VerifierOff
    /\ SecurityOff
    /\ CitadelOff
    /\ ReaderOff

(***************************************************************************)
(* Positions.  The constructor is process Ctor; its position is ctor.      *)
(***************************************************************************)
Pos(p) == IF p = Ctor THEN ctor ELSE pc[p]

Goto(p, s) ==
    IF p = Ctor
    THEN ctor' = s /\ UNCHANGED pc
    ELSE pc' = [pc EXCEPT ![p] = s] /\ UNCHANGED ctor

\* Mutant of CanAcquire: the lock is handed out while another holds it.
CanAcquireHeld(p) == lock # p

\* threading.Lock: acquire succeeds only while nobody holds the lock, the
\* caller itself included (the lock is not reentrant).
CanAcquire(p) == lock = NoHolder

\* Thread t leaves its with block and its call returns (or raises) r, the
\* in-memory ledger then being l.
Return(t, r, l) ==
    /\ lock' = NoHolder
    /\ pc' = [pc EXCEPT ![t] = "idle"]
    /\ last' = [call |-> call[t], ret |-> r, pre |-> pre[t], post |-> l]
    /\ call' = [call EXCEPT ![t] = NoCall]
    /\ tx' = [tx EXCEPT ![t] = NoTx]
    /\ pre' = [pre EXCEPT ![t] = create_empty_ledger]
    /\ verified' = [verified EXCEPT ![t] = FALSE]

\* What the call returns once its _persist_ledger has come back.
SuccessValue(t) ==
    IF call[t].op = "transfer_funds" THEN RetTx(tx[t].tx_id) ELSE RetBool(TRUE)

(***************************************************************************)
(* __init__ and _load_or_initialize_ledger: a file that exists is loaded   *)
(* (RuntimeError if it cannot be parsed), otherwise a blank ledger is      *)
(* created and persisted.                                                  *)
(***************************************************************************)
CtorLoad ==
    /\ ctor = "load"
    /\ IF file = None
       THEN /\ ledger' = create_empty_ledger
            /\ ctor' = "persist"
       ELSE IF IsComplete(file[1])
       THEN /\ ledger' = JsonLoad(file[1][1])
            /\ ctor' = "ready"
       ELSE /\ ctor' = "failed"
            /\ UNCHANGED ledger
    /\ UNCHANGED <<lock, file, tmp, pc, call, tx, pre, uuid_next, verified, last>>
    /\ UNCHANGED outside_ledger

(***************************************************************************)
(* _persist_ledger, run by the constructor or by a thread's operation.     *)
(***************************************************************************)
PersistAcquire(p) ==
    /\ Pos(p) = "persist"
    /\ CanAcquire(p)
    /\ lock' = p
    /\ Goto(p, "p_open")
    /\ UNCHANGED <<ledger, file, tmp, call, tx, pre, uuid_next, verified, last>>
    /\ UNCHANGED outside_ledger

\* Mutant of PersistOpenTemp: the ledger file itself is opened for writing.
PersistOpenInPlace(p) ==
    /\ Pos(p) = "p_open"
    /\ file' = Some(Partial)
    /\ Goto(p, "p_dump")
    /\ UNCHANGED <<ledger, lock, tmp, call, tx, pre, uuid_next, verified, last>>
    /\ UNCHANGED outside_ledger

\* open(temp_path, "w") creates or truncates the side file.
PersistOpenTemp(p) ==
    /\ Pos(p) = "p_open"
    /\ tmp' = Some(Partial)
    /\ Goto(p, "p_dump")
    /\ UNCHANGED <<ledger, lock, file, call, tx, pre, uuid_next, verified, last>>
    /\ UNCHANGED outside_ledger

\* json.dump, flush, fsync, close.
PersistDump(p) ==
    /\ Pos(p) = "p_dump"
    /\ tmp' = Some(Complete(JsonDump(ledger)))
    /\ Goto(p, "p_replace")
    /\ UNCHANGED <<ledger, lock, file, call, tx, pre, uuid_next, verified, last>>
    /\ UNCHANGED outside_ledger

\* temp_path.replace(self.ledger_path): the atomic rename.
PersistReplace(p) ==
    /\ Pos(p) = "p_replace"
    /\ file' = tmp
    /\ tmp' = None
    /\ Goto(p, "p_sync")
    /\ UNCHANGED <<ledger, lock, call, tx, pre, uuid_next, verified, last>>
    /\ UNCHANGED outside_ledger

\* The trailing fsync (its errors are swallowed), the end of the with block,
\* and the return to the caller: the constructor is done, an operation
\* leaves its own with block and returns its success value.
PersistExit(p) ==
    /\ Pos(p) = "p_sync"
    /\ IF p = Ctor
       THEN /\ ctor' = "ready"
            /\ lock' = NoHolder
            /\ UNCHANGED <<pc, call, tx, pre, verified, last>>
       ELSE /\ Return(p, SuccessValue(p), ledger)
            /\ UNCHANGED ctor
    /\ UNCHANGED <<ledger, file, tmp, uuid_next>>
    /\ UNCHANGED outside_ledger

\* An exception while opening, writing or renaming: the side file is
\* unlinked if it exists and RuntimeError propagates through the with blocks.
PersistFail(p) ==
    /\ Pos(p) \in {"p_open", "p_dump", "p_replace"}
    /\ tmp' = None
    /\ IF p = Ctor
       THEN /\ ctor' = "failed"
            /\ lock' = NoHolder
            /\ UNCHANGED <<pc, call, tx, pre, verified, last>>
       ELSE /\ Return(p, RetError, ledger)
            /\ UNCHANGED ctor
    /\ UNCHANGED <<ledger, file, uuid_next>>
    /\ UNCHANGED outside_ledger

(***************************************************************************)
(* A thread starts a call that takes the ledger lock and waits for the     *)
(* lock; it enters its critical section with the arguments of its call     *)
(* (the arguments have no effect before the lock is taken).                *)
(***************************************************************************)
Call(t) ==
    /\ ctor = "ready"
    /\ pc[t] = "idle"
    /\ pc' = [pc EXCEPT ![t] = "lock"]
    /\ UNCHANGED <<ledger, lock, file, tmp, ctor, call, tx, pre, uuid_next,
                   verified, last>>
    /\ UNCHANGED outside_ledger

Acquire(t, c) ==
    /\ pc[t] = "lock"
    /\ CanAcquire(t)
    /\ lock' = t
    /\ pc' = [pc EXCEPT ![t] = "cs"]
    /\ call' = [call EXCEPT ![t] = c]
    /\ pre' = [pre EXCEPT ![t] = ledger]
    /\ last' = NoLast
    /\ UNCHANGED <<ledger, file, tmp, ctor, tx, uuid_next, verified>>
    /\ UNCHANGED outside_ledger

InCall(t, op, at) == pc[t] = at /\ call[t].op = op

(***************************************************************************)
(* create_agent.                                                           *)
(***************************************************************************)
AgentExists(l, id) == id \in DOMAIN l.agents

\* Mutant of InsertAgent: the agents dictionary is replaced by one holding
\* only the new agent.
InsertAgentAlone(l, id, tier) ==
    [l EXCEPT !.agents = [a \in {id} |-> NewAgent(tier)]]

InsertAgent(l, id, tier) ==
    [l EXCEPT !.agents = [a \in DOMAIN l.agents \cup {id} |->
                            IF a = id THEN NewAgent(tier) ELSE l.agents[a]]]

CreateAgentReject(t) ==
    /\ InCall(t, "create_agent", "cs")
    /\ AgentExists(ledger, call[t].agent_id)
    /\ Return(t, RetBool(FALSE), ledger)
    /\ UNCHANGED <<ledger, file, tmp, ctor, uuid_next>>
    /\ UNCHANGED outside_ledger

CreateAgentInsert(t) ==
    /\ InCall(t, "create_agent", "cs")
    /\ ~AgentExists(ledger, call[t].agent_id)
    /\ ledger' = InsertAgent(ledger, call[t].agent_id, call[t].tier)
    /\ pc' = [pc EXCEPT ![t] = "persist"]
    /\ UNCHANGED <<lock, file, tmp, ctor, call, tx, pre, uuid_next, verified, last>>
    /\ UNCHANGED outside_ledger

(***************************************************************************)
(* transfer_funds.                                                         *)
(***************************************************************************)
\* Mutant of UnknownAccount: only the payer is looked up.
UnknownPayer(l, from, to) == ~AgentExists(l, from)

UnknownAccount(l, from, to) ==
    ~AgentExists(l, from) \/ ~AgentExists(l, to)

\* Mutant of InsufficientBalance: the payer may go down to its debt ceiling.
InsufficientAboveCeiling(l, from, amount) ==
    l.agents[from].financials.balance - amount
        < l.agents[from].financials.debt_ceiling

\* "Check sufficient balance": balance < amount.
InsufficientBalance(l, from, amount) ==
    l.agents[from].financials.balance < amount

TransferRejected(l, c) ==
    IF UnknownAccount(l, c.from_agent, c.to_agent)
    THEN TRUE
    ELSE InsufficientBalance(l, c.from_agent, c.amount)

BuildTx(id, c) ==
    LET t0 == [tx_id |-> id, from |-> c.from_agent, to |-> c.to_agent,
               amount |-> c.amount, type |-> "TRANSFER", checksum |-> <<>>]
    IN  [t0 EXCEPT !.checksum = compute_transaction_checksum(t0)]

\* Mutant of Debit: the payer is not debited.
DebitSkipped(l, from, amount) == l

Debit(l, from, amount) ==
    [l EXCEPT !.agents[from].financials.balance = @ - amount]

\* Mutant of Credit: the recipient is credited one unit too many.
CreditOffByOne(l, to, amount) ==
    [l EXCEPT !.agents[to].financials.balance = @ + amount + 1]

Credit(l, to, amount) ==
    [l EXCEPT !.agents[to].financials.balance = @ + amount]

\* Mutant of AppendTx: the record is put at the front of the log.
PrependTx(l, rec) ==
    [l EXCEPT !.transaction_log = <<rec>> \o @]

AppendTx(l, rec) ==
    [l EXCEPT !.transaction_log = Append(@, rec)]

TransferReject(t) ==
    /\ InCall(t, "transfer_funds", "cs")
    /\ TransferRejected(ledger, call[t])
    /\ Return(t, RetNone, ledger)
    /\ UNCHANGED <<ledger, file, tmp, ctor, uuid_next>>
    /\ UNCHANGED outside_ledger

\* Both checks passed: the tx dictionary is built and the payer is debited.
TransferDebit(t) ==
    /\ InCall(t, "transfer_funds", "cs")
    /\ ~TransferRejected(ledger, call[t])
    /\ uuid_next <= MaxTx
    /\ tx' = [tx EXCEPT ![t] = BuildTx(uuid_next, call[t])]
    /\ uuid_next' = uuid_next + 1
    /\ ledger' = Debit(ledger, call[t].from_agent, call[t].amount)
    /\ pc' = [pc EXCEPT ![t] = "credit"]
    /\ UNCHANGED <<lock, file, tmp, ctor, call, pre, verified, last>>
    /\ UNCHANGED outside_ledger

TransferCredit(t) ==
    /\ InCall(t, "transfer_funds", "credit")
    /\ ledger' = Credit(ledger, call[t].to_agent, call[t].amount)
    /\ pc' = [pc EXCEPT ![t] = "log"]
    /\ UNCHANGED <<lock, file, tmp, ctor, call, tx, pre, uuid_next, verified, last>>
    /\ UNCHANGED outside_ledger

TransferLog(t) ==
    /\ InCall(t, "transfer_funds", "log")
    /\ ledger' = AppendTx(ledger, tx[t])
    /\ pc' = [pc EXCEPT ![t] = "persist"]
    /\ UNCHANGED <<lock, file, tmp, ctor, call, tx, pre, uuid_next, verified, last>>
    /\ UNCHANGED outside_ledger

(***************************************************************************)
(* update_agent_performance.                                               *)
(***************************************************************************)
SetPerformance(l, c) ==
    LET p0 == l.agents[c.agent_id].performance
        p1 == IF c.streak # None THEN [p0 EXCEPT !.streak = c.streak[1]] ELSE p0
        p2 == IF c.success_rate # None
              THEN [p1 EXCEPT !.success_rate = c.success_rate[1]] ELSE p1
    IN  [l EXCEPT !.agents[c.agent_id].performance = p2]

UpdatePerformanceReject(t) ==
    /\ InCall(t, "update_agent_performance", "cs")
    /\ ~AgentExists(ledger, call[t].agent_id)
    /\ Return(t, RetBool(FALSE), ledger)
    /\ UNCHANGED <<ledger, file, tmp, ctor, uuid_next>>
    /\ UNCHANGED outside_ledger

UpdatePerformanceApply(t) ==
    /\ InCall(t, "update_agent_performance", "cs")
    /\ AgentExists(ledger, call[t].agent_id)
    /\ ledger' = SetPerformance(ledger, call[t])
    /\ pc' = [pc EXCEPT ![t] = "persist"]
    /\ UNCHANGED <<lock, file, tmp, ctor, call, tx, pre, uuid_next, verified, last>>
    /\ UNCHANGED outside_ledger

(***************************************************************************)
(* get_ledger_snapshot (under the lock) and get_agent_balance (no lock).   *)
(***************************************************************************)
GetLedgerSnapshot(t) ==
    /\ InCall(t, "get_ledger_snapshot", "cs")
    /\ Return(t, RetSnapshot(JsonLoad(JsonDump(ledger))), ledger)
    /\ UNCHANGED <<ledger, file, tmp, ctor, uuid_next>>
    /\ UNCHANGED outside_ledger

AgentBalance(l, id) ==
    IF AgentExists(l, id) THEN Some(l.agents[id].financials.balance) ELSE None

GetAgentBalance(t, id) ==
    /\ ctor = "ready"
    /\ pc[t] = "idle"
    /\ last' = [call |-> [op |-> "get_agent_balance", agent_id |-> id],
                ret |-> RetBalance(AgentBalance(ledger, id)),
                pre |-> ledger, post |-> ledger]
    /\ UNCHANGED <<ledger, lock, file, tmp, ctor, pc, call, tx, pre, uuid_next, verified>>
    /\ UNCHANGED outside_ledger

(***************************************************************************)
(* The process dies; the files stay.  A new process constructs the engine  *)
(* on the same path.                                                       *)
(***************************************************************************)
Crash ==
    /\ ctor # "load"
    /\ ledger' = create_empty_ledger
    /\ lock' = NoHolder
    /\ ctor' = "load"
    /\ pc' = [t \in Threads |-> "idle"]
    /\ call' = [t \in Threads |-> NoCall]
    /\ tx' = [t \in Threads |-> NoTx]
    /\ pre' = [t \in Threads |-> create_empty_ledger]
    /\ verified' = [t \in Threads |-> FALSE]
    /\ last' = NoLast
    /\ UNCHANGED <<file, tmp, uuid_next>>
    /\ UNCHANGED outside_ledger

Next ==
    \/ CtorLoad
    \/ \E p \in Procs : PersistAcquire(p)
    \/ \E p \in Procs : PersistOpenTemp(p)
    \/ \E p \in Procs : PersistDump(p)
    \/ \E p \in Procs : PersistReplace(p)
    \/ \E p \in Procs : PersistExit(p)
    \/ \E p \in Procs : PersistFail(p)
    \/ \E t \in Threads : Call(t)
    \/ \E t \in Threads, c \in LockedCalls : Acquire(t, c)
    \/ \E t \in Threads : CreateAgentReject(t)
    \/ \E t \in Threads : CreateAgentInsert(t)
    \/ \E t \in Threads : TransferReject(t)
    \/ \E t \in Threads : TransferDebit(t)
    \/ \E t \in Threads : TransferCredit(t)
    \/ \E t \in Threads : TransferLog(t)
    \/ \E t \in Threads : UpdatePerformanceReject(t)
    \/ \E t \in Threads : UpdatePerformanceApply(t)
    \/ \E t \in Threads : GetLedgerSnapshot(t)
    \/ \E t \in Threads, id \in AgentIds : GetAgentBalance(t, id)
    \/ Crash

Spec == Init /\ [][Next]_vars

TypeOK ==
    /\ lock \in Procs \cup {NoHolder}
    /\ ctor \in {"load", "persist", "p_open", "p_dump", "p_replace", "p_sync",
                 "ready", "failed"}
    /\ uuid_next \in 1..(MaxTx + 1)

(***************************************************************************)
(* Definitions used by the properties.                                     *)
(***************************************************************************)
RECURSIVE SumBalances(_, _)
SumBalances(l, S) ==
    IF S = {} THEN 0
    ELSE LET a == CHOOSE x \in S : TRUE
         IN  l.agents[a].financials.balance + SumBalances(l, S \ {a})

\* sum(all balances) + reserve
TotalWealth(l) == SumBalances(l, DOMAIN l.agents) + l.system_bank.balance

Balance(l, a) == l.agents[a].financials.balance
DebtCeiling(l, a) == l.agents[a].financials.debt_ceiling

IsTransfer(t) == call[t].op = "transfer_funds"

\* Positions of transfer_funds after the debit, after the credit and log
\* append, and inside the _persist_ledger it then calls.
PersistPositions == {"persist", "p_open", "p_dump", "p_replace", "p_sync"}
Applied(t) == IsTransfer(t) /\ pc[t] \in PersistPositions
MidTransfer(t) == IsTransfer(t) /\ pc[t] \in {"credit", "log"}

(***************************************************************************)
(* C1.  Whenever no transfer is between its debit and its log append,      *)
(* every account's balance is greater than or equal to that account's      *)
(* debt_ceiling.                                                           *)
(***************************************************************************)
C1_BalanceAtLeastDebtCeiling ==
    (\A t \in Threads : ~MidTransfer(t)) =>
        \A a \in DOMAIN ledger.agents : Balance(ledger, a) >= DebtCeiling(ledger, a)

(***************************************************************************)
(* C2.  A transfer_funds call that has applied its transfer (debit, credit *)
(* and log append), and one that has returned a transaction id, leaves the *)
(* sum of all agent balances plus the system reserve what it was when the  *)
(* call entered its critical section.                                      *)
(***************************************************************************)
C2_Conservation ==
    /\ \A t \in Threads : Applied(t) => TotalWealth(ledger) = TotalWealth(pre[t])
    /\ (last.call.op = "transfer_funds" /\ last.ret.kind = "tx_id")
           => TotalWealth(last.post) = TotalWealth(last.pre)

\* A transfer between two different accounts of a non-zero amount has been
\* applied.
C2_Witness ==
    \E t \in Threads :
        /\ Applied(t)
        /\ call[t].from_agent # call[t].to_agent
        /\ call[t].amount # 0
        /\ Balance(ledger, call[t].to_agent) # Balance(pre[t], call[t].to_agent)

(***************************************************************************)
(* C3.  No caller is blocked forever on the ledger lock: no process waits  *)
(* in _persist_ledger for a lock that it holds itself (the holder being    *)
(* the only one who would release it).                                     *)
(***************************************************************************)
C3_NoCallerBlockedForever ==
    \A p \in Procs : ~(Pos(p) = "persist" /\ lock = p)

(***************************************************************************)
(* C5.  A transfer_funds call with a negative amount never gets past its   *)
(* checks: it changes nothing in the ledger and returns no transaction id. *)
(***************************************************************************)
C5_NegativeAmountRejected ==
    /\ \A t \in Threads :
          (IsTransfer(t) /\ call[t].amount < 0) => (pc[t] = "cs" /\ ledger = pre[t])
    /\ (last.call.op = "transfer_funds" /\ last.call.amount < 0)
           => (last.ret = RetNone /\ last.post = last.pre)

BothExist(l, c) == AgentExists(l, c.from_agent) /\ AgentExists(l, c.to_agent)
PostBalance(l, c) == Balance(l, c.from_agent) - c.amount

\* transfer_funds has passed its checks.
Accepted(t) == IsTransfer(t) /\ pc[t] \in {"credit", "log"} \cup PersistPositions

LastTransfer == last.call.op = "transfer_funds"

(***************************************************************************)
(* C4.  Every transfer that transfer_funds applies was preceded, within    *)
(* the same call and before any balance changed, by a verify_all_invariants *)
(* check that returned valid.                                              *)
(***************************************************************************)
C4_VerifiedBeforeCommit ==
    \A t \in Threads : Accepted(t) => verified[t]

(***************************************************************************)
(* C6.  A transfer_funds call whose _persist_ledger does not succeed (it   *)
(* raised, or it can never complete) has surfaced an error and has left    *)
(* the in-memory ledger as it was before the call.                         *)
(***************************************************************************)
PersistCannotComplete(t) == pc[t] = "persist" /\ lock = t

C6_FailedPersistLeavesNoTrace ==
    /\ \A t \in Threads :
          (IsTransfer(t) /\ PersistCannotComplete(t)) => ledger = pre[t]
    /\ (LastTransfer /\ last.ret = RetError) => last.post = last.pre

(***************************************************************************)
(* C7.  The ledger file is never partial, and while a mutating operation   *)
(* is in progress it holds the complete state from before the operation    *)
(* or the complete state after it; before the rename it holds the state    *)
(* from before the operation, which is what a reload after a crash yields. *)
(***************************************************************************)
Mutating(t) ==
    /\ call[t].op \in {"create_agent", "transfer_funds", "update_agent_performance"}
    /\ pc[t] \notin {"idle", "lock"}

Reload == JsonLoad(file[1][1])

C7_FileCompletePreOrPost ==
    /\ file # None => IsComplete(file[1])
    /\ \A t \in Threads :
          Mutating(t) =>
              /\ file # None
              /\ Reload = pre[t] \/ Reload = ledger
              /\ pc[t] # "p_sync" => Reload = pre[t]

\* A transfer has changed the balances and appended to the log in memory,
\* and the file still holds the state from before the call.
C7_Witness ==
    \E t \in Threads :
        /\ Applied(t)
        /\ ledger # pre[t]
        /\ file # None /\ IsComplete(file[1]) /\ Reload = pre[t]

RejectCase(l, c) ==
    IF ~BothExist(l, c) THEN TRUE
    ELSE PostBalance(l, c) < DebtCeiling(l, c.from_agent)

C9_RejectedLeavesLedgerUnchanged ==
    /\ \A t \in Threads :
          (IsTransfer(t) /\ RejectCase(pre[t], call[t])) =>
              (pc[t] = "cs" /\ ledger = pre[t])
    /\ (LastTransfer /\ RejectCase(last.pre, last.call)) => last.ret = RetNone
    /\ (LastTransfer /\ last.ret = RetNone) => last.post = last.pre

\* A transfer between existing accounts that would push the payer below its
\* debt ceiling has been rejected.
C9_Witness ==
    /\ LastTransfer /\ last.ret = RetNone /\ BothExist(last.pre, last.call)
    /\ PostBalance(last.pre, last.call) < DebtCeiling(last.pre, last.call.from_agent)
    /\ last.post = last.pre

(***************************************************************************)
(* C10.  An applied transfer_funds(from, to, amount) has lowered the       *)
(* payer's balance by amount and raised the recipient's by amount, has     *)
(* appended one record carrying from, to and amount to the log, and has    *)
(* left every other field, every other account and the reserve unchanged.  *)
(***************************************************************************)
TransferEffect(before, after, c) ==
    /\ DOMAIN after.agents = DOMAIN before.agents
    /\ \A a \in DOMAIN before.agents :
          /\ Balance(after, a) =
                 Balance(before, a)
                   - (IF a = c.from_agent THEN c.amount ELSE 0)
                   + (IF a = c.to_agent THEN c.amount ELSE 0)
          /\ after.agents[a] =
                 [before.agents[a] EXCEPT !.financials.balance = Balance(after, a)]
    /\ after.system_bank = before.system_bank
    /\ after.metadata = before.metadata
    /\ Len(after.transaction_log) = Len(before.transaction_log) + 1
    /\ SubSeq(after.transaction_log, 1, Len(before.transaction_log))
           = before.transaction_log
    /\ LET rec == after.transaction_log[Len(after.transaction_log)]
       IN  rec.from = c.from_agent /\ rec.to = c.to_agent /\ rec.amount = c.amount

C10_TransferEffect ==
    /\ \A t \in Threads : Applied(t) => TransferEffect(pre[t], ledger, call[t])
    /\ (LastTransfer /\ last.ret.kind = "tx_id")
           => TransferEffect(last.pre, last.post, last.call)

\* A positive amount has been moved between two different accounts.
C10_Witness ==
    \E t \in Threads :
        /\ Applied(t)
        /\ call[t].from_agent # call[t].to_agent
        /\ call[t].amount > 0
        /\ Len(ledger.transaction_log) = Len(pre[t].transaction_log) + 1

(***************************************************************************)
(* C11.  A transfer_funds call whose from_agent is "system_bank", whose    *)
(* recipient exists and whose amount is positive and within the reserve is *)
(* not rejected, and once applied it has lowered the system reserve by     *)
(* amount, raised the recipient's balance by amount and appended a record. *)
(***************************************************************************)
FromSystemBank(l, c) ==
    /\ c.op = "transfer_funds"
    /\ c.from_agent = "system_bank"
    /\ c.to_agent # "system_bank"
    /\ AgentExists(l, c.to_agent)
    /\ c.amount > 0
    /\ c.amount <= l.system_bank.balance

C11_SystemBankTransferCommits ==
    /\ FromSystemBank(last.pre, last.call) => last.ret # RetNone
    /\ \A t \in Threads :
          (FromSystemBank(pre[t], call[t]) /\ Applied(t)) =>
              /\ ledger.system_bank.balance
                     = pre[t].system_bank.balance - call[t].amount
              /\ Balance(ledger, call[t].to_agent)
                     = Balance(pre[t], call[t].to_agent) + call[t].amount
              /\ Len(ledger.transaction_log) = Len(pre[t].transaction_log) + 1

(***************************************************************************)
(* C12.  At most one thread is inside the critical section of create_agent, *)
(* transfer_funds, update_agent_performance or get_ledger_snapshot, and it  *)
(* holds the lock; a snapshot that get_ledger_snapshot returns is the       *)
(* ledger as it was when the lock was free (between whole operations), is   *)
(* the committed state the ledger file holds, and is returned while no      *)
(* other thread is part-way through an operation.                           *)
(***************************************************************************)
InCriticalSection(t) == pc[t] \notin {"idle", "lock"}

SnapshotReturned == last.call.op = "get_ledger_snapshot" /\ last.ret.kind = "snapshot"

C12_MutualExclusionAndWholeSnapshots ==
    /\ \A t, u \in Threads :
          (InCriticalSection(t) /\ InCriticalSection(u)) => t = u
    /\ \A t \in Threads : InCriticalSection(t) => lock = t
    /\ SnapshotReturned =>
          /\ last.ret.val = last.pre
          /\ file # None /\ last.ret.val = Reload
          /\ \A u \in Threads : ~InCriticalSection(u)

\* A snapshot holding accounts and a transaction record has been returned
\* while another thread is waiting for the lock.
C12_Witness ==
    /\ SnapshotReturned
    /\ Len(last.ret.val.transaction_log) > 0
    /\ DOMAIN last.ret.val.agents # {}
    /\ \E u \in Threads : pc[u] = "lock"

(***************************************************************************)
(* C13.  Once create_agent, transfer_funds or update_agent_performance has *)
(* succeeded (returned True or a transaction id), and likewise once it has *)
(* made its change and cannot go on to complete _persist_ledger, a new     *)
(* engine constructed on the ledger path loads the state the first engine  *)
(* holds in memory.                                                        *)
(***************************************************************************)
Succeeded ==
    /\ last.call.op \in {"create_agent", "transfer_funds", "update_agent_performance"}
    /\ last.ret = RetBool(TRUE) \/ last.ret.kind = "tx_id"

C13_ReloadEqualsMemory ==
    /\ Succeeded => (file # None /\ Reload = last.post)
    /\ \A t \in Threads :
          (Mutating(t) /\ PersistCannotComplete(t)) =>
              (file # None /\ Reload = ledger)

(***************************************************************************)
(* C14.  A create_agent call with an id that already exists makes no       *)
(* change and returns False, the whole ledger then being what it was       *)
(* before the call; and no step of a running engine removes an account     *)
(* from the ledger.                                                        *)
(***************************************************************************)
DuplicateCreate(l, c) ==
    c.op = "create_agent" /\ c.agent_id \in DOMAIN l.agents

AccountsStay ==
    ctor' # "load" => \A a \in DOMAIN ledger.agents : a \in DOMAIN ledger'.agents

C14_DuplicateRejectedAccountsStay ==
    /\ [](/\ \A t \in Threads :
               DuplicateCreate(pre[t], call[t]) => (pc[t] = "cs" /\ ledger = pre[t])
          /\ DuplicateCreate(last.pre, last.call) =>
               (last.ret = RetBool(FALSE) /\ last.post = last.pre)
          /\ (last.call.op = "create_agent" /\ last.ret = RetBool(FALSE)) =>
               last.post = last.pre)
    /\ [][AccountsStay]_vars

\* A create_agent call for an existing account, whose balance a transfer
\* had changed, has returned False.
C14_Witness ==
    /\ DuplicateCreate(last.pre, last.call)
    /\ last.ret = RetBool(FALSE)
    /\ Balance(last.pre, last.call.agent_id) # INITIAL_AGENT_BALANCE
    /\ Balance(last.post, last.call.agent_id) = Balance(last.pre, last.call.agent_id)

(***************************************************************************)
(* C15.  The transaction log only grows: an applied transfer has put       *)
(* exactly one record at the end of the log, with a transaction id that no *)
(* earlier record has; no two records of the log share a transaction id;   *)
(* and no step of a running engine removes, reorders or modifies a record  *)
(* already in the log, or adds more than one.                              *)
(***************************************************************************)
IsPrefix(s, t) == Len(s) <= Len(t) /\ SubSeq(t, 1, Len(s)) = s

TxIds(log) == {log[i].tx_id : i \in 1..Len(log)}

OneRecordAppended(before, after) ==
    /\ Len(after) = Len(before) + 1
    /\ IsPrefix(before, after)
    /\ after[Len(after)].tx_id \notin TxIds(before)

LogOnlyGrows ==
    ctor' # "load" =>
        /\ IsPrefix(ledger.transaction_log, ledger'.transaction_log)
        /\ Len(ledger'.transaction_log) <= Len(ledger.transaction_log) + 1

C15_LogAppendOnly ==
    /\ [](/\ \A t \in Threads :
               Applied(t) =>
                   OneRecordAppended(pre[t].transaction_log, ledger.transaction_log)
          /\ (LastTransfer /\ last.ret.kind = "tx_id") =>
               OneRecordAppended(last.pre.transaction_log, last.post.transaction_log)
          /\ Cardinality(TxIds(ledger.transaction_log)) = Len(ledger.transaction_log))
    /\ [][LogOnlyGrows]_vars

\* A transfer has appended its record to a log that already held one.
C15_Witness ==
    \E t \in Threads :
        /\ Applied(t)
        /\ Len(pre[t].transaction_log) > 0
        /\ Len(ledger.transaction_log) = Len(pre[t].transaction_log) + 1
        /\ ledger.transaction_log[Len(ledger.transaction_log)] = tx[t]

(***************************************************************************)
(* C16.  For every record of the transaction log, in memory and as         *)
(* reloaded from the ledger file, the checksum recomputed over the stored  *)
(* fields other than checksum equals the stored checksum, and the checksum *)
(* recomputed after any one of those fields is given another value differs *)
(* from the stored checksum.                                               *)
(***************************************************************************)
FieldValues ==
    [amount |-> Amounts \cup {30, 31}, from |-> AgentIds, to |-> AgentIds,
     tx_id |-> 0..(MaxTx + 1), type |-> {"TRANSFER", "REWARD"}]

ChecksumVerifies(rec) == compute_transaction_checksum(rec) = rec.checksum

\* The records that differ from rec in exactly one field other than checksum.
Tampered(rec) ==
    UNION {{[rec EXCEPT ![f] = v] : v \in FieldValues[f]} : f \in DOMAIN FieldValues}
        \ {rec}

ChecksumsHold(log) ==
    \A i \in 1..Len(log) :
        /\ ChecksumVerifies(log[i])
        /\ \A r \in Tampered(log[i]) : ~ChecksumVerifies(r)

C16_ChecksumRoundTrip ==
    /\ ChecksumsHold(ledger.transaction_log)
    /\ (file # None /\ IsComplete(file[1])) => ChecksumsHold(Reload.transaction_log)

\* The log holds a record loaded from the file and a record that a transfer
\* of this engine appended.
C16_Witness ==
    \E t \in Threads :
        /\ Applied(t)
        /\ Len(ledger.transaction_log) = 2
        /\ ledger.transaction_log[2] = tx[t]
        /\ tx[t].amount # 0

(***************************************************************************)
(* The hook manager (src/src/hooks/__init__.py).                           *)
(*                                                                         *)
(* A manifest entry carries type, priority, target_tool and enabled; the   *)
(* id of a hook is the position of its entry in the manifest.  A payload   *)
(* is a dictionary (a function from keys to values) or None.               *)
(*                                                                         *)
(* _execute_hook is the place where a hook's code runs on the payload.     *)
(* The body shipped in the source hands the payload back unchanged         *)
(* (outcome "pass"); a hook object such as BashGuardHook hands the payload *)
(* back with _halt set (outcome "halt"); the loop of execute_phase also    *)
(* provides for a hook that returns None, and for one that raises.  The    *)
(* outcome of each invocation is an input of the model.                    *)
(***************************************************************************)
MaxHooks == 3

HookPhase == {"PRE_PROMPT", "PRE_TOOL", "POST_TOOL"}

HookEntries ==
    {[type |-> "PRE_TOOL", priority |-> 50, target_tool |-> None, enabled |-> TRUE],
     [type |-> "PRE_TOOL", priority |-> 10, target_tool |-> None, enabled |-> TRUE],
     [type |-> "PRE_TOOL", priority |-> 90, target_tool |-> Some("bash"), enabled |-> TRUE],
     [type |-> "PRE_TOOL", priority |-> 10, target_tool |-> None, enabled |-> FALSE],
     [type |-> "POST_TOOL", priority |-> 50, target_tool |-> None, enabled |-> TRUE],
     [type |-> "ON_EXIT", priority |-> 10, target_tool |-> None, enabled |-> TRUE]}

Manifests ==
    {None} \cup {Some(m) : m \in UNION {[1..n -> HookEntries] : n \in 0..MaxHooks}}

PlainPayload == [command |-> "ls"]
EmptyPayload == <<>>
WithHalt(d) == [k \in DOMAIN d \cup {"_halt"} |-> IF k = "_halt" THEN TRUE ELSE d[k]]

PayloadArgs == {Some(PlainPayload), Some(WithHalt(PlainPayload))}
TargetArgs == {None, Some("bash"), Some("python")}
PhaseArgs == {"PRE_TOOL", "POST_TOOL"}
HookOutcomes == {"pass", "halt", "none", "empty", "raise"}

\* The dataclass Hook built from entry e at position i of the manifest.
Hook(i, e) ==
    [id |-> i, phase |-> e.type, priority |-> e.priority,
     target_tool |-> e.target_tool, enabled |-> e.enabled]

\* Hook.__lt__
HookLt(a, b) == a.priority < b.priority

\* The for loop of _parse_manifest from entry i on: HookPhase[type] raises
\* KeyError for an unknown type, and that entry is skipped.
RECURSIVE ParseEntries(_, _, _)
ParseEntries(m, i, hs) ==
    IF i > Len(m) THEN hs
    ELSE IF m[i].type \in HookPhase
         THEN ParseEntries(m, i + 1, Append(hs, Hook(i, m[i])))
         ELSE ParseEntries(m, i + 1, hs)

\* Mutant of InsertSorted: h is placed before the first element that is not
\* less than it, ahead of the hooks of its own priority.
RECURSIVE InsertBeforeEqual(_, _)
InsertBeforeEqual(s, h) ==
    IF s = <<>> THEN <<h>>
    ELSE IF ~HookLt(Head(s), h) THEN <<h>> \o s
         ELSE <<Head(s)>> \o InsertBeforeEqual(Tail(s), h)

\* list.sort(): a stable sort that compares with __lt__.  h is placed
\* before the first element it is less than.
RECURSIVE InsertSorted(_, _)
InsertSorted(s, h) ==
    IF s = <<>> THEN <<h>>
    ELSE IF HookLt(h, Head(s)) THEN <<h>> \o s
         ELSE <<Head(s)>> \o InsertSorted(Tail(s), h)

\* Mutant of SortHooks: the hooks stay in manifest order.
ManifestOrder(s) == s

RECURSIVE SortHooks(_)
SortHooks(s) ==
    IF s = <<>> THEN <<>>
    ELSE InsertSorted(SortHooks(SubSeq(s, 1, Len(s) - 1)), s[Len(s)])

parse_manifest(m) == SortHooks(ParseEntries(m, 1, <<>>))

\* relevant_hooks of execute_phase.
RelevantHooks(hs, phase, target) ==
    LET InPhase(h) == h.phase = phase /\ h.enabled
        ForTool(h) == h.target_tool = None \/ h.target_tool = target
        byPhase == SelectSeq(hs, InPhase)
    IN  IF phase = "PRE_TOOL" /\ target # None
        THEN SelectSeq(byPhase, ForTool)
        ELSE byPhase

\* payload.get("_halt")
Halted(p) == "_halt" \in DOMAIN p[1] /\ p[1]["_halt"] = TRUE

\* Mutant of ShouldBreak: the halt marker is not looked at.
BreakOnNoneOnly(p) == p = None

\* "if payload is None or payload.get("_halt"): break"
ShouldBreak(p) == IF p = None THEN TRUE ELSE Halted(p)

\* What the invocation of a hook returns for outcome b on payload p.
HookReturn(b, p) ==
    CASE b = "pass" -> p
      [] b = "halt" -> Some(WithHalt(p[1]))
      [] b = "empty" -> Some(EmptyPayload)
      [] OTHER -> None

(***************************************************************************)
(* HookManager.__init__ with _load_manifest and _parse_manifest.           *)
(***************************************************************************)
HookManagerInit ==
    /\ hm = "new"
    /\ hooks' = IF manifest = None THEN <<>> ELSE parse_manifest(manifest[1])
    /\ hm' = "ready"
    /\ UNCHANGED <<manifest, request, relevant, idx, payload, invoked, result>>
    /\ UNCHANGED outside_hooks

(***************************************************************************)
(* execute_phase: the call with its arguments, one turn of the for loop    *)
(* per hook, and the return after the last hook.                           *)
(***************************************************************************)
ExecutePhase(ph, p, tt) ==
    /\ hm = "ready"
    /\ hm' = "loop"
    /\ request' = [phase |-> ph, target_tool |-> tt, payload |-> p]
    /\ relevant' = RelevantHooks(hooks, ph, tt)
    /\ idx' = 1
    /\ payload' = p
    /\ invoked' = <<>>
    /\ result' = NoResult
    /\ UNCHANGED <<manifest, hooks>>
    /\ UNCHANGED outside_hooks

\* "return payload", reached by break or after the last hook.
ReturnPayload(p) ==
    /\ hm' = "returned"
    /\ result' = [kind |-> "returned", val |-> p]

\* Mutant of HookRaised: the exception is printed and the loop goes on.
HookErrorSwallowed(h) ==
    /\ idx' = idx + 1
    /\ UNCHANGED <<hm, result, payload>>

\* "except Exception as e: print(...); raise"
HookRaised(h) ==
    /\ hm' = "raised"
    /\ result' = [kind |-> "raised", hook |-> h.id]
    /\ UNCHANGED <<idx, payload>>

ExecuteHook(b) ==
    /\ hm = "loop"
    /\ idx <= Len(relevant)
    /\ b = "halt" => payload # None
    /\ invoked' = Append(invoked, [id |-> relevant[idx].id, outcome |-> b])
    /\ IF b = "raise"
       THEN HookRaised(relevant[idx])
       ELSE /\ payload' = HookReturn(b, payload)
            /\ IF ShouldBreak(HookReturn(b, payload))
               THEN ReturnPayload(HookReturn(b, payload)) /\ UNCHANGED idx
               ELSE idx' = idx + 1 /\ UNCHANGED <<hm, result>>
    /\ UNCHANGED <<manifest, hooks, request, relevant>>
    /\ UNCHANGED outside_hooks

PhaseReturn ==
    /\ hm = "loop"
    /\ idx > Len(relevant)
    /\ ReturnPayload(payload)
    /\ UNCHANGED <<manifest, hooks, request, relevant, idx, payload, invoked>>
    /\ UNCHANGED outside_hooks

\* The caller has its answer; the manager is ready for the next call.
PhaseDone ==
    /\ hm \in {"returned", "raised"}
    /\ hm' = "ready"
    /\ request' = NoRequest
    /\ relevant' = <<>>
    /\ idx' = 0
    /\ payload' = None
    /\ invoked' = <<>>
    /\ result' = NoResult
    /\ UNCHANGED <<manifest, hooks>>
    /\ UNCHANGED outside_hooks

HooksInit ==
    /\ LedgerOff
    /\ MCPOff
    /\ VerifierOff
    /\ SecurityOff
    /\ CitadelOff
    /\ ReaderOff
    /\ manifest \in Manifests
    /\ hooks = <<>>
    /\ hm = "new"
    /\ request = NoRequest
    /\ relevant = <<>>
    /\ idx = 0
    /\ payload = None
    /\ invoked = <<>>
    /\ result = NoResult

HooksNext ==
    \/ HookManagerInit
    \/ \E ph \in PhaseArgs, p \in PayloadArgs, tt \in TargetArgs : ExecutePhase(ph, p, tt)
    \/ \E b \in HookOutcomes : ExecuteHook(b)
    \/ PhaseReturn
    \/ PhaseDone

SpecHooks == HooksInit /\ [][HooksNext]_vars

(***************************************************************************)
(* The MCP server (src/src/mcp/server.py): handle_request and the handlers *)
(* it dispatches to.  The registry holds the five built-in tools; only     *)
(* execute_tool has an asynchronous handler.  What a tool handler does is  *)
(* an input: it returns, raises, or (asynchronous handlers) exceeds the    *)
(* tool's timeout.  server.py never refers to the hook manager: no         *)
(* statement of handle_request or _handle_execute_tool runs a phase.       *)
(***************************************************************************)
MaxExecutions == 3

BuiltinTools ==
    [list_tools |-> [async_handler |-> FALSE],
     get_tool_info |-> [async_handler |-> FALSE],
     execute_tool |-> [async_handler |-> TRUE],
     get_execution_status |-> [async_handler |-> FALSE],
     cancel_execution |-> [async_handler |-> FALSE]]

ToolNameArgs == {"list_tools", "execute_tool", "bash"}
HandlerOutcomes == {"returns", "raises", "times_out"}
OtherMethods == {"tools/list", "tools/get", "resources/list"}
ExecutionIds == 1..MaxExecutions

\* registry.get_tool(name)
GetTool(name) == IF name \in DOMAIN BuiltinTools THEN Some(BuiltinTools[name]) ELSE None

\* The status of the execution once the handler has returned, raised or
\* timed out.
StatusAfter(o) == IF o = "returns" THEN "completed" ELSE "failed"

\* The PRE_TOOL phase that _handle_execute_tool runs on the request before
\* it invokes the handler: the method contains no such call.
PreToolRun == "not_run"

\* tools/call: _handle_execute_tool for tool `name`.  A synchronous handler
\* is called and does o; an asynchronous handler is started as a task and
\* the request waits for it, the execution being RUNNING meanwhile.
HandleExecuteTool(name, o) ==
    /\ Len(executions) < MaxExecutions
    /\ o # "times_out"
    /\ LET id == Len(executions) + 1
           st == IF GetTool(name)[1].async_handler THEN "running" ELSE StatusAfter(o)
       IN  IF GetTool(name) = None
           THEN /\ executions' = Append(executions,
                       [id |-> id, tool_name |-> name, status |-> "failed"])
                /\ response' = [kind |-> "execution", execution_id |-> id,
                                status |-> "failed"]
                /\ UNCHANGED handled
           ELSE /\ handled' = Append(handled,
                       [execution_id |-> id, tool_name |-> name,
                        pre_tool |-> PreToolRun])
                /\ executions' = Append(executions,
                       [id |-> id, tool_name |-> name, status |-> st])
                /\ response' = IF st = "running" THEN NoResponse
                               ELSE [kind |-> "execution", execution_id |-> id,
                                     status |-> st]
    /\ UNCHANGED outside_mcp

\* _execute_tool_async and the wait_for on it: the handler returns, raises
\* or exceeds the timeout, and the waiting request answers.
AsyncToolEnds(id, o) ==
    /\ id \in DOMAIN executions
    /\ executions[id].status = "running"
    /\ executions' = [executions EXCEPT ![id].status = StatusAfter(o)]
    /\ response' = [kind |-> "execution", execution_id |-> id,
                    status |-> StatusAfter(o)]
    /\ UNCHANGED handled
    /\ UNCHANGED outside_mcp

\* execution/status
HandleGetExecutionStatus(id) ==
    /\ response' = IF id \in DOMAIN executions
                   THEN [kind |-> "execution", execution_id |-> id,
                         status |-> executions[id].status]
                   ELSE [kind |-> "error"]
    /\ UNCHANGED <<executions, handled>>
    /\ UNCHANGED outside_mcp

\* execution/cancel: only a RUNNING execution is cancelled.
HandleCancelExecution(id) ==
    /\ IF id \in DOMAIN executions
       THEN IF executions[id].status = "running"
            THEN /\ executions' = [executions EXCEPT ![id].status = "cancelled"]
                 /\ response' = [kind |-> "execution", execution_id |-> id,
                                 status |-> "cancelled"]
            ELSE /\ response' = [kind |-> "error"]
                 /\ UNCHANGED executions
       ELSE /\ response' = [kind |-> "error"]
            /\ UNCHANGED executions
    /\ UNCHANGED handled
    /\ UNCHANGED outside_mcp

\* tools/list, tools/get and unknown methods change nothing.
HandleOtherMethod(method) ==
    /\ response' = IF method \in {"tools/list", "tools/get"}
                   THEN [kind |-> "tools"] ELSE [kind |-> "error"]
    /\ UNCHANGED <<executions, handled>>
    /\ UNCHANGED outside_mcp

MCPInit ==
    LedgerOff /\ HooksOff /\ MCPOff /\ VerifierOff /\ SecurityOff /\ CitadelOff /\ ReaderOff

MCPNext ==
    \/ \E name \in ToolNameArgs, o \in HandlerOutcomes : HandleExecuteTool(name, o)
    \/ \E id \in ExecutionIds, o \in HandlerOutcomes : AsyncToolEnds(id, o)
    \/ \E id \in ExecutionIds : HandleGetExecutionStatus(id)
    \/ \E id \in ExecutionIds : HandleCancelExecution(id)
    \/ \E method \in OtherMethods : HandleOtherMethod(method)

SpecMCP == MCPInit /\ [][MCPNext]_vars

(***************************************************************************)
(* C17.  Every tool handler that the MCP server has invoked for a          *)
(* tools/call request was preceded by a PRE_TOOL run of the hook pipeline  *)
(* on that request, and that run returned a payload that was not halted.   *)
(***************************************************************************)
C17_HandlerOnlyAfterPreToolPass ==
    \A i \in 1..Len(handled) : handled[i].pre_tool = "passed"

(***************************************************************************)
(* Definitions used by the properties of execute_phase.                    *)
(***************************************************************************)
\* The priority the manifest gives to the hook with id i.
PriorityOf(i) == manifest[1][i].priority

InvokedIds == {invoked[i].id : i \in 1..Len(invoked)}

\* The hooks of the manifest that are enabled, registered for the requested
\* phase and have no target_tool filter.
UnfilteredIds ==
    IF manifest = None THEN {}
    ELSE {i \in 1..Len(manifest[1]) :
             /\ manifest[1][i].type = request.phase
             /\ manifest[1][i].enabled
             /\ manifest[1][i].target_tool = None}

\* The call has returned a payload that is neither None nor halted: the
\* loop ran to its end.
RanToEnd == hm = "returned" /\ result.val # None /\ ~Halted(result.val)

(***************************************************************************)
(* C18.  The hooks that an execute_phase call invokes are invoked in       *)
(* ascending order of priority, none of them twice, whatever their order   *)
(* in the manifest; a call that no hook stopped has invoked every enabled  *)
(* hook of the requested phase that has no target_tool filter.             *)
(***************************************************************************)
C18_AscendingPriority ==
    /\ \A i, j \in 1..Len(invoked) :
          i < j => /\ PriorityOf(invoked[i].id) <= PriorityOf(invoked[j].id)
                   /\ invoked[i].id # invoked[j].id
    /\ RanToEnd => UnfilteredIds \subseteq InvokedIds

\* The manifest lists priorities 50, 10, 90 in that order and the call has
\* invoked the second hook, then the first, then the third.
C18_Witness ==
    /\ manifest # None
    /\ Len(manifest[1]) = 3
    /\ <<PriorityOf(1), PriorityOf(2), PriorityOf(3)>> = <<50, 10, 90>>
    /\ hm = "returned"
    /\ Len(invoked) = 3
    /\ <<invoked[1].id, invoked[2].id, invoked[3].id>> = <<2, 1, 3>>

(***************************************************************************)
(* C19.  When an invoked hook has set the halt marker on the payload, it   *)
(* is the last hook the call invokes, and the call has returned the        *)
(* payload with the marker to its caller; the loop never goes on to        *)
(* another hook with a halted payload.                                     *)
(***************************************************************************)
C19_HaltStopsPhase ==
    /\ \A i \in 1..Len(invoked) :
          invoked[i].outcome = "halt" =>
              /\ i = Len(invoked)
              /\ hm = "returned"
              /\ result.kind = "returned"
              /\ result.val # None /\ Halted(result.val)
              /\ result.val = Some(WithHalt(payload[1]))
    /\ (hm = "loop" /\ invoked # <<>>) => (payload # None /\ ~Halted(payload))

\* The first of several relevant hooks has set the halt marker on a payload
\* that came without it, and the call has returned.
C19_Witness ==
    /\ hm = "returned"
    /\ Len(relevant) >= 2
    /\ Len(invoked) = 1
    /\ invoked[1].outcome = "halt"
    /\ ~Halted(request.payload)
    /\ Halted(result.val)

(***************************************************************************)
(* C20.  When an invoked hook has raised an exception, it is the last hook *)
(* the call invokes, and the call has ended by raising to its caller: it   *)
(* has returned no payload.                                                *)
(***************************************************************************)
C20_ExceptionAbortsPhase ==
    /\ \A i \in 1..Len(invoked) :
          invoked[i].outcome = "raise" =>
              /\ i = Len(invoked)
              /\ hm = "raised"
              /\ result = [kind |-> "raised", hook |-> invoked[i].id]
    /\ hm = "raised" <=> result.kind = "raised"
    /\ hm = "returned" <=> result.kind = "returned"

\* The second of three relevant hooks has raised, after the first had
\* passed the payload on.
C20_Witness ==
    /\ hm = "raised"
    /\ Len(relevant) = 3
    /\ Len(invoked) = 2
    /\ invoked[1].outcome = "pass"
    /\ invoked[2].outcome = "raise"
    /\ result.kind = "raised"

(***************************************************************************)
(* C36.  Hooks of the same phase with equal priority are invoked by an     *)
(* execute_phase call in the order in which the manifest registered them:  *)
(* of two invoked hooks of equal priority, the one invoked first is the    *)
(* one that stands first in the manifest.                                  *)
(***************************************************************************)
C36_EqualPriorityInManifestOrder ==
    \A i, j \in 1..Len(invoked) :
        (i < j /\ PriorityOf(invoked[i].id) = PriorityOf(invoked[j].id))
            => invoked[i].id < invoked[j].id

\* The manifest lists priorities 10, 50, 10 in that order, and the call has
\* invoked the first hook, then the third, then the second.
C36_Witness ==
    /\ manifest # None
    /\ Len(manifest[1]) = 3
    /\ <<PriorityOf(1), PriorityOf(2), PriorityOf(3)>> = <<10, 50, 10>>
    /\ hm = "returned"
    /\ Len(invoked) = 3
    /\ <<invoked[1].id, invoked[2].id, invoked[3].id>> = <<1, 3, 2>>

(***************************************************************************)
(* C37.  An execute_phase call invokes a hook only if the hook is enabled  *)
(* and registered for the requested phase; in the PRE_TOOL phase it        *)
(* invokes a hook that has a target_tool filter only if the target tool of *)
(* the request equals the filter, also when the request names no target    *)
(* tool; a call that no hook stopped has invoked every enabled hook of the *)
(* phase that has no filter.                                               *)
(***************************************************************************)
EntryOf(i) == manifest[1][i]

C37_OnlyMatchingHooksRun ==
    /\ \A i \in 1..Len(invoked) :
          /\ EntryOf(invoked[i].id).enabled
          /\ EntryOf(invoked[i].id).type = request.phase
          /\ (request.phase = "PRE_TOOL" /\ EntryOf(invoked[i].id).target_tool # None)
                 => EntryOf(invoked[i].id).target_tool = request.target_tool
    /\ RanToEnd => UnfilteredIds \subseteq InvokedIds

(***************************************************************************)
(* C38.  When a hook returns an empty payload (None, or a dictionary with  *)
(* no entries), the execute_phase call invokes no further hook of the      *)
(* phase, and what the call returns is that payload.                       *)
(***************************************************************************)
C38_EmptyPayloadStopsPhase ==
    \A i \in 1..Len(invoked) :
        invoked[i].outcome \in {"none", "empty"} =>
            /\ i = Len(invoked)
            /\ hm = "returned" => result.val = HookReturn(invoked[i].outcome, payload)

(***************************************************************************)
(* The Z3 verifier (src/src/citadel/verifier.py): the four theorems,       *)
(* verify_theorem with its two backends, and the verification log.         *)
(*                                                                         *)
(* As shipped the package src/src/citadel cannot be imported: its          *)
(* __init__.py imports .verifier (line 27) before it defines               *)
(* VerificationResult (line 33), which verifier.py imports from the        *)
(* package (line 22).  The model describes the class once it is loaded     *)
(* with VerificationResult defined.                                        *)
(*                                                                         *)
(* The numbers bound by a call are whole numbers from Values.  A theorem's *)
(* constraints and goal are the strings the source passes to eval.         *)
(***************************************************************************)
\* Bounds: the largest number a call binds, and the length of the log.
MaxValue == 0
MaxLog == 1

Values == (0 - 1)..MaxValue

Theorem(name, variables, constraints, goal) ==
    [name |-> name, variables |-> variables, constraints |-> constraints, goal |-> goal]

define_theorems ==
    [k \in {"conservation", "solvency", "debt_ceiling", "non_negative"} |->
        CASE k = "conservation" ->
                Theorem("Conservation of Wealth",
                        <<"bank_pre", "agent_pre", "reward", "tax", "bank_post", "agent_post">>,
                        <<"bank_post == bank_pre + tax - reward",
                          "agent_post == agent_pre + reward - tax">>,
                        "bank_pre + agent_pre == bank_post + agent_post")
          [] k = "solvency" ->
                Theorem("Solvency Constraint",
                        <<"balance", "transaction_amount">>,
                        <<>>,
                        "balance >= transaction_amount")
          [] k = "debt_ceiling" ->
                Theorem("Debt Ceiling Constraint",
                        <<"balance", "debt_ceiling">>,
                        <<>>,
                        "balance >= debt_ceiling")
          [] k = "non_negative" ->
                Theorem("Non-Negative Balance",
                        <<"balance">>,
                        <<>>,
                        "balance >= 0")]

Range(s) == {s[i] : i \in DOMAIN s}
VariablesOf(theorem) == Range(theorem.variables)

\* The names verify_theorem is called with: the four keys and one that is
\* no key of the dictionary.
TheoremNameArgs == DOMAIN define_theorems \cup {"liquidity"}

\* The bindings a caller holds: a value for each variable of one theorem.
KwargsArgs ==
    UNION {[VariablesOf(define_theorems[k]) -> Values] : k \in DOMAIN define_theorems}

BindsAll(name, kw) ==
    /\ name \in DOMAIN define_theorems
    /\ VariablesOf(define_theorems[name]) \subseteq DOMAIN kw

\* eval(expression, {}, variables): the value of a constraint or goal string
\* under an assignment m of its variables.
Eval(expression, m) ==
    CASE expression = "bank_post == bank_pre + tax - reward" ->
            m["bank_post"] = m["bank_pre"] + m["tax"] - m["reward"]
      [] expression = "agent_post == agent_pre + reward - tax" ->
            m["agent_post"] = m["agent_pre"] + m["reward"] - m["tax"]
      [] expression = "bank_pre + agent_pre == bank_post + agent_post" ->
            m["bank_pre"] + m["agent_pre"] = m["bank_post"] + m["agent_post"]
      [] expression = "balance >= transaction_amount" ->
            m["balance"] >= m["transaction_amount"]
      [] expression = "balance >= debt_ceiling" ->
            m["balance"] >= m["debt_ceiling"]
      [] expression = "balance >= 0" ->
            m["balance"] >= 0

VerificationResult(is_valid, theorem, reasoning, error_details) ==
    [is_valid |-> is_valid, theorem |-> theorem,
     reasoning |-> reasoning, error_details |-> error_details]

\* kwargs.get(k, 0)
KwGet(kw, k) == IF k \in DOMAIN kw THEN kw[k] ELSE 0

\* _stub_verify: the branch is chosen by comparing theorem.name, the display
\* name of the theorem, with the dictionary keys.  abs(d) < 1e-6 on whole
\* numbers is d = 0.
stub_verify(theorem, kw) ==
    IF theorem.name = "conservation"
    THEN LET wealth_pre == KwGet(kw, "bank_pre") + KwGet(kw, "agent_pre")
             wealth_post == KwGet(kw, "bank_post") + KwGet(kw, "agent_post")
             is_valid == wealth_pre = wealth_post
         IN  VerificationResult(is_valid, theorem.name, "Wealth before, after",
                                IF is_valid THEN "" ELSE "Wealth mismatch")
    ELSE IF theorem.name = "solvency"
    THEN LET is_valid == KwGet(kw, "balance") >= KwGet(kw, "transaction_amount")
         IN  VerificationResult(is_valid, theorem.name, "Balance >= Transaction",
                                IF is_valid THEN "" ELSE "Insufficient funds")
    ELSE IF theorem.name = "debt_ceiling"
    THEN LET is_valid == KwGet(kw, "balance") >= KwGet(kw, "debt_ceiling")
         IN  VerificationResult(is_valid, theorem.name, "Balance >= Ceiling",
                                IF is_valid THEN "" ELSE "Debt ceiling exceeded")
    ELSE IF theorem.name = "non_negative"
    THEN LET is_valid == KwGet(kw, "balance") >= 0
         IN  VerificationResult(is_valid, theorem.name, "Balance >= 0",
                                IF is_valid THEN "" ELSE "Negative balance")
    ELSE VerificationResult(FALSE, theorem.name,
                            "Stub verification not implemented for this theorem",
                            "Theorem not supported in stub mode")

\* The assertions verify_theorem adds to the solver: the constraints, one
\* equation for each keyword argument that names a variable of the theorem,
\* and the negation of the goal.  The solver answers sat exactly when some
\* assignment of the variables satisfies them all.  The variables are reals
\* in the source.  A variable bound by the call has its value; for one that
\* is not bound the search tries a number below and a number above every
\* number in Values, which decides the four theorems: the two constraints of
\* conservation contradict the negated goal whatever the values, and a goal
\* x >= y with x or y free is refuted by the low x or the high y.
SearchValues == {0 - 2, MaxValue + 1}

Assignments(theorem, kw) ==
    LET unbound == VariablesOf(theorem) \ DOMAIN kw
    IN  {[v \in VariablesOf(theorem) |-> IF v \in DOMAIN kw THEN kw[v] ELSE f[v]] :
            f \in [unbound -> SearchValues]}

Satisfies(theorem, m) ==
    /\ \A i \in DOMAIN theorem.constraints : Eval(theorem.constraints[i], m)
    /\ ~Eval(theorem.goal, m)

SolverCheck(theorem, kw) ==
    IF \E m \in Assignments(theorem, kw) : Satisfies(theorem, m) THEN "sat" ELSE "unsat"

\* What the solver does in a call: it answers the query, or it gives up
\* (timeout: the answer is unknown), or it raises.
SolverFaults == {"none", "unknown", "error"}

\* Mutant of SolverAnswerValid: every answer but sat counts as a proof.
SolverAnswerWrong(answer) == answer # "sat"

\* result = self.solver.check() == unsat
SolverAnswerValid(answer) == answer = "unsat"

Verified(name, backend, fault, res) ==
    [kind |-> "returned", name |-> name, backend |-> backend, fault |-> fault, result |-> res]

\* Mutant of TheoremLookup: a name that is no key gets a default theorem.
DefaultTheoremLookup(name) ==
    IF name \in DOMAIN define_theorems THEN Some(define_theorems[name])
    ELSE Some(define_theorems["non_negative"])

\* self.theorems.get(theorem_name)
TheoremLookup(name) ==
    IF name \in DOMAIN define_theorems THEN Some(define_theorems[name]) ELSE None

\* verify_theorem with a name that is no key of self.theorems.
VerifyTheoremUnknown(name) ==
    /\ TheoremLookup(name) = None
    /\ verification' =
           Verified(name, "none", "none",
                    VerificationResult(FALSE, name, "Unknown theorem", "Theorem not defined"))
    /\ UNCHANGED <<Z3_AVAILABLE, kwargs, verification_log>>
    /\ UNCHANGED outside_verifier

\* verify_theorem without the solver library: the arithmetic fallback.
VerifyTheoremStub(name) ==
    /\ TheoremLookup(name) # None
    /\ ~Z3_AVAILABLE
    /\ verification' =
           Verified(name, "stub", "none", stub_verify(TheoremLookup(name)[1], kwargs))
    /\ UNCHANGED <<Z3_AVAILABLE, kwargs, verification_log>>
    /\ UNCHANGED outside_verifier

\* verify_theorem with the solver: the result of a completed check is
\* appended to the log; an exception is caught and reported as a result that
\* is not logged.
VerifyTheoremSolver(name, fault) ==
    /\ TheoremLookup(name) # None
    /\ Z3_AVAILABLE
    /\ LET theorem == TheoremLookup(name)[1]
           answer == IF fault = "none" THEN SolverCheck(theorem, kwargs) ELSE "unknown"
           is_valid == SolverAnswerValid(answer)
           res == VerificationResult(is_valid, theorem.name, "Z3 verification",
                                     IF is_valid THEN "" ELSE "Theorem violation detected")
       IN  IF fault = "error"
           THEN /\ verification' =
                       Verified(name, "solver", fault,
                                VerificationResult(FALSE, theorem.name,
                                                   "Z3 verification failed", "error"))
                /\ UNCHANGED verification_log
           ELSE /\ Len(verification_log) < MaxLog
                /\ verification' = Verified(name, "solver", fault, res)
                /\ verification_log' = Append(verification_log, res)
    /\ UNCHANGED <<Z3_AVAILABLE, kwargs>>
    /\ UNCHANGED outside_verifier

\* clear_log
ClearLog ==
    /\ verification_log # <<>>
    /\ verification_log' = <<>>
    /\ UNCHANGED <<Z3_AVAILABLE, kwargs, verification>>
    /\ UNCHANGED outside_verifier

\* The verifier after its constructor, in a process with or without the
\* solver library, before a caller that holds one set of bindings.
VerifierInit ==
    /\ LedgerOff
    /\ HooksOff
    /\ MCPOff
    /\ SecurityOff
    /\ CitadelOff
    /\ ReaderOff
    /\ Z3_AVAILABLE \in BOOLEAN
    /\ kwargs \in KwargsArgs
    /\ verification_log = <<>>
    /\ verification = NoVerification

VerifierNext ==
    \/ \E name \in TheoremNameArgs : VerifyTheoremUnknown(name)
    \/ \E name \in TheoremNameArgs : VerifyTheoremStub(name)
    \/ \E name \in TheoremNameArgs, fault \in SolverFaults : VerifyTheoremSolver(name, fault)
    \/ ClearLog

SpecVerifier == VerifierInit /\ [][VerifierNext]_vars

(***************************************************************************)
(* Properties of the verifier.                                             *)
(***************************************************************************)
Returned == verification.kind = "returned"

\* The closed-form predicate of each theorem on a complete binding.
ClosedForm(name, kw) ==
    CASE name = "conservation" ->
            kw["bank_pre"] + kw["agent_pre"] = kw["bank_post"] + kw["agent_post"]
      [] name = "solvency" -> kw["balance"] >= kw["transaction_amount"]
      [] name = "debt_ceiling" -> kw["balance"] >= kw["debt_ceiling"]
      [] name = "non_negative" -> kw["balance"] >= 0

(***************************************************************************)
(* C21.  With the arithmetic fallback backend, verify_theorem called with  *)
(* one of the four theorem names and a value for each of its variables     *)
(* returns is_valid equal to the theorem's closed-form predicate on those  *)
(* values.                                                                 *)
(***************************************************************************)
C21_FallbackEqualsClosedForm ==
    (/\ Returned
     /\ verification.backend = "stub"
     /\ BindsAll(verification.name, kwargs))
        => (verification.result.is_valid <=> ClosedForm(verification.name, kwargs))

(***************************************************************************)
(* C22.  With the solver backend, verify_theorem("conservation", ...)      *)
(* returns is_valid = FALSE for every binding of the six variables in      *)
(* which bank_pre + agent_pre differs from bank_post + agent_post.         *)
(***************************************************************************)
C22_SolverRejectsUnconserved ==
    (/\ Returned
     /\ verification.backend = "solver"
     /\ verification.name = "conservation"
     /\ BindsAll("conservation", kwargs)
     /\ ~ClosedForm("conservation", kwargs))
        => ~verification.result.is_valid

(***************************************************************************)
(* C23.  For each of the four theorems and every complete binding of its   *)
(* variables, the is_valid that verify_theorem returns under one backend   *)
(* is the is_valid it returns for the same call under the other backend    *)
(* (the solver answering the query).                                       *)
(***************************************************************************)
OtherBackendValid(name, backend, kw) ==
    LET theorem == define_theorems[name]
    IN  IF backend = "stub"
        THEN SolverAnswerValid(SolverCheck(theorem, kw))
        ELSE stub_verify(theorem, kw).is_valid

C23_BackendsAgree ==
    (/\ Returned
     /\ verification.fault = "none"
     /\ BindsAll(verification.name, kwargs))
        => (verification.result.is_valid
              <=> OtherBackendValid(verification.name, verification.backend, kwargs))

(***************************************************************************)
(* C24.  Under the solver backend, a call in which the solver raises, or   *)
(* answers anything other than unsat (unknown after a timeout, or sat),    *)
(* returns is_valid = FALSE.                                               *)
(***************************************************************************)
SolverDidNotProve ==
    /\ Returned
    /\ verification.backend = "solver"
    /\ \/ verification.fault # "none"
       \/ SolverCheck(define_theorems[verification.name], kwargs) # "unsat"

C24_SolverFaultFailsClosed == SolverDidNotProve => ~verification.result.is_valid

\* A timeout on a query whose answer would have been unsat, and an
\* exception, both reported as invalid.
C24_Witness ==
    /\ SolverDidNotProve
    /\ verification.fault = "unknown"
    /\ SolverCheck(define_theorems[verification.name], kwargs) = "unsat"
    /\ ~verification.result.is_valid
    /\ verification_log = <<verification.result>>

(***************************************************************************)
(* C25.  verify_theorem called with a name that is not one of the defined  *)
(* theorems returns a VerificationResult with is_valid = FALSE that names  *)
(* the unknown theorem, with either backend.                               *)
(***************************************************************************)
C25_UnknownTheoremInvalid ==
    (Returned /\ verification.name \notin DOMAIN define_theorems)
        => (/\ ~verification.result.is_valid
            /\ verification.result.theorem = verification.name)

C25_Witness ==
    /\ Returned
    /\ verification.name = "liquidity"
    /\ Z3_AVAILABLE
    /\ "balance" \in DOMAIN kwargs
    /\ kwargs["balance"] >= 0
    /\ ~verification.result.is_valid

(***************************************************************************)
(* The security hooks (src/src/hooks/security).  A payload is a dictionary *)
(* (a function on its keys); execute returns the dictionary it was given,  *)
(* with the halt marker and the violations added when it objects.  Each    *)
(* behaviour is one call of one hook on one payload.                       *)
(***************************************************************************)
DictGet(d, k, default) == IF k \in DOMAIN d THEN d[k] ELSE default

\* payload["_halt"] = True; payload["security_violations"] = violations
HaltPayload(p, violations) ==
    [k \in DOMAIN p \cup {"_halt", "security_violations"} |->
        IF k = "_halt" THEN TRUE
        ELSE IF k = "security_violations" THEN violations
        ELSE p[k]]

Executed(hook, p, kind, returned) ==
    [hook |-> hook, payload |-> p, kind |-> kind, returned |-> returned]

(***************************************************************************)
(* ASTScannerHook (ASTScannerHook.py), with the default configuration.     *)
(*                                                                         *)
(* Source text is a sequence of lines, each one statement of one of a few  *)
(* forms; ast.parse turns a line into the nodes the Python grammar gives   *)
(* it.  The value under "code" is such a text or a value that is not a     *)
(* string.  The texts are far below max_ast_nodes nodes.                   *)
(***************************************************************************)
MaxStmts == 2

blocked_imports ==
    {"os", "sys", "subprocess", "socket", "urllib", "requests",
     "pickle", "marshal", "shelve", "dbm", "sqlite3", "psycopg2",
     "smtplib", "telnetlib", "ftplib", "poplib", "imaplib",
     "ctypes", "threading", "multiprocessing", "asyncio"}

blocked_calls ==
    {"exec", "eval", "compile", "__import__", "open", "file",
     "input", "raw_input", "reload", "vars", "globals", "locals",
     "dir", "getattr", "setattr", "delattr", "hasattr",
     "exit", "quit", "help", "copyright", "credits", "license"}

ModuleArgs == {"os", "json"}
ImportedNameArgs == {"path", "sys"}
CallArgs == {"eval", "print"}

Line(form, module, name) == [form |-> form, module |-> module, name |-> name]

\* import m;  import m as x;  from m import x;  x = 1;  f();  a line that
\* does not parse;  a line longer than max_line_length;  a line longer than
\* the limit on the whole text.
LineArgs ==
    {Line("import", m, "") : m \in ModuleArgs}
        \cup {Line("import_as", m, "x") : m \in ModuleArgs}
        \cup {Line("from", m, x) : m \in ModuleArgs, x \in ImportedNameArgs}
        \cup {Line("call", "", f) : f \in CallArgs}
        \cup {Line(form, "", "") : form \in {"assign", "broken", "too_long", "too_large"}}

RECURSIVE SeqsUpTo(_, _)
SeqsUpTo(S, n) ==
    IF n = 0 THEN {<<>>}
    ELSE LET shorter == SeqsUpTo(S, n - 1)
         IN  shorter \cup {Append(s, x) : s \in shorter, x \in S}

StrCode(lines) == [type |-> "str", lines |-> lines]
IntCode == [type |-> "int", lines |-> <<>>]

CodeArgs == {StrCode(lines) : lines \in SeqsUpTo(LineArgs, MaxStmts)} \cup {IntCode}

CodePayloadArgs == {[code |-> c] : c \in CodeArgs} \cup {<<>>}

\* "not code": the empty string (the default when the key is absent).
CodeIsFalsy(code) == code.type = "str" /\ code.lines = <<>>

AstNode(type, lineno, name, names, func, kids) ==
    [type |-> type, lineno |-> lineno, name |-> name, names |-> names,
     func |-> func, kids |-> kids]

Leaf(type, lineno, name) == AstNode(type, lineno, name, <<>>, None, <<>>)

\* The statement node ast.parse builds for the line at position lineno.
ParseLine(line, lineno) ==
    CASE line.form = "import" ->
            LET names == <<Leaf("alias", lineno, line.module)>>
            IN  AstNode("Import", lineno, "", names, None, names)
      [] line.form = "import_as" ->
            LET names == <<Leaf("alias", lineno, line.module)>>
            IN  AstNode("Import", lineno, "", names, None, names)
      [] line.form = "from" ->
            LET names == <<Leaf("alias", lineno, line.name)>>
            IN  AstNode("ImportFrom", lineno, line.module, names, None, names)
      [] line.form = "call" ->
            LET func == AstNode("Name", lineno, line.name, <<>>, None,
                                <<Leaf("Load", lineno, "")>>)
                called == AstNode("Call", lineno, "", <<>>, Some(func), <<func>>)
            IN  AstNode("Expr", lineno, "", <<>>, None, <<called>>)
      [] OTHER ->
            AstNode("Assign", lineno, "", <<>>, None,
                    <<AstNode("Name", lineno, "x", <<>>, None, <<Leaf("Store", lineno, "")>>),
                      Leaf("Constant", lineno, "")>>)

\* ast.parse(code) for a text all of whose lines parse.
Parse(lines) ==
    AstNode("Module", 0, "", <<>>, None, [i \in DOMAIN lines |-> ParseLine(lines[i], i)])

\* ast.walk: breadth first from the root.
RECURSIVE WalkFrom(_)
WalkFrom(todo) ==
    IF todo = <<>> THEN <<>>
    ELSE <<Head(todo)>> \o WalkFrom(Tail(todo) \o Head(todo).kids)

Walk(tree) == WalkFrom(<<tree>>)

SecurityViolation(type, line, severity) ==
    [type |-> type, line |-> line, severity |-> severity]

\* The violations _scan_ast appends for one node.  Of the branches of the
\* source those for Import / ImportFrom and for a Call of a plain name apply
\* to the nodes of the modelled statements.
NodeViolations(node) ==
    IF node.type \in {"Import", "ImportFrom"}
    THEN LET hits == SelectSeq(node.names, LAMBDA alias : alias.name \in blocked_imports)
         IN  [i \in DOMAIN hits |-> SecurityViolation("blocked_import", node.lineno, "high")]
    ELSE IF node.type = "Call" /\ node.func # None /\ node.func[1].type = "Name"
                /\ node.func[1].name \in blocked_calls
    THEN <<SecurityViolation("blocked_call", node.lineno, "high")>>
    ELSE <<>>

RECURSIVE ScanNodes(_)
ScanNodes(nodes) ==
    IF nodes = <<>> THEN <<>>
    ELSE NodeViolations(Head(nodes)) \o ScanNodes(Tail(nodes))

scan_ast(tree) == ScanNodes(Walk(tree))

FirstLine(lines, form) == CHOOSE i \in DOMAIN lines :
    /\ lines[i].form = form
    /\ \A j \in 1..(i - 1) : lines[j].form # form

HasLine(lines, form) == \E i \in DOMAIN lines : lines[i].form = form

\* The body of the try statement of execute: it ends by halting with some
\* violations, by passing, or with an exception.
ScanHalts(violations) == [kind |-> "halt", violations |-> violations, lineno |-> 0]
ScanPasses == [kind |-> "pass", violations |-> <<>>, lineno |-> 0]
ScanRaises(exception, lineno) == [kind |-> exception, violations |-> <<>>, lineno |-> lineno]

ScanBody(code) ==
    IF code.type # "str" THEN ScanRaises("TypeError", 0)
    ELSE IF HasLine(code.lines, "too_large")
    THEN ScanHalts(<<SecurityViolation("code_too_large", 0, "high")>>)
    ELSE IF HasLine(code.lines, "too_long")
    THEN ScanHalts(<<SecurityViolation("line_too_long",
                                       FirstLine(code.lines, "too_long"), "medium")>>)
    ELSE IF HasLine(code.lines, "broken")
    THEN ScanRaises("SyntaxError", FirstLine(code.lines, "broken"))
    ELSE LET violations == scan_ast(Parse(code.lines))
         IN  IF violations # <<>> THEN ScanHalts(violations) ELSE ScanPasses

\* Mutant of ScanCatches: only the syntax error is caught.
ScanErrorsPropagate(exception) == exception = "SyntaxError"

\* "except SyntaxError" and "except Exception" between them catch every
\* exception the body raises.
ScanCatches(exception) == exception \in {"SyntaxError", "TypeError"}

scanner_execute(p) ==
    LET code == DictGet(p, "code", StrCode(<<>>))
        body == ScanBody(code)
    IN  IF CodeIsFalsy(code) THEN Executed("ASTScannerHook", p, "returned", p)
        ELSE IF body.kind = "pass" THEN Executed("ASTScannerHook", p, "returned", p)
        ELSE IF body.kind = "halt"
        THEN Executed("ASTScannerHook", p, "returned", HaltPayload(p, body.violations))
        ELSE IF ~ScanCatches(body.kind)
        THEN Executed("ASTScannerHook", p, "raised", p)
        ELSE IF body.kind = "SyntaxError"
        THEN Executed("ASTScannerHook", p, "returned",
                      HaltPayload(p, <<SecurityViolation("syntax_error", body.lineno, "high")>>))
        ELSE Executed("ASTScannerHook", p, "returned",
                      HaltPayload(p, <<SecurityViolation("scan_error", 0, "high")>>))

Called(hook, p) == Executed(hook, p, "called", p)

ASTScannerExecute ==
    /\ executed.kind = "called"
    /\ executed.hook = "ASTScannerHook"
    /\ executed' = scanner_execute(executed.payload)
    /\ UNCHANGED outside_security

(***************************************************************************)
(* BashGuardHook (BashGuardHook.py), with the default configuration.       *)
(*                                                                         *)
(* A command line is a sequence of lexemes: each character the code looks  *)
(* at singly (space, quote, slash, the shell operators) is a lexeme, and   *)
(* so is each maximal run of other characters (a word).  No word of the    *)
(* modelled command lines is a proper prefix of another, so that a string  *)
(* starts with or contains another exactly when its lexemes do.  The value *)
(* under "command" is such a line or a value that is not a string.         *)
(***************************************************************************)
MaxArgs == 2

blocked_commands ==
    {"rm", "rmdir", "mv", "cp", "chmod", "chown", "chgrp",
     "dd", "fdisk", "mkfs", "mount", "umount", "swapon", "swapoff",
     "reboot", "shutdown", "halt", "poweroff", "init", "systemctl",
     "service", "chkconfig", "update-rc.d", "sysv-rc-conf",
     "passwd", "useradd", "usermod", "userdel", "groupadd", "groupmod",
     "su", "sudo", "doas", "pkexec", "gksudo", "kdesudo",
     "iptables", "ufw", "firewall-cmd", "netfilter",
     "crontab", "at", "batch", "nohup", "screen", "tmux",
     "wget", "curl", "nc", "netcat", "telnet", "ssh", "scp", "rsync",
     "python", "python3", "perl", "ruby", "node", "npm", "pip",
     "gcc", "g++", "make", "cmake", "cargo", "go", "java", "javac",
     "docker", "podman", "kubectl", "helm", "minikube",
     "git", "svn", "hg", "bzr", "cvs"}

allowed_commands ==
    {"ls", "pwd", "cd", "echo", "cat", "head", "tail", "grep", "wc",
     "sort", "uniq", "cut", "awk", "sed", "tr", "date", "whoami",
     "id", "uname", "df", "du", "free", "ps", "top", "uptime",
     "which", "whereis", "type", "help", "history", "alias",
     "export", "env", "printenv", "set", "unset", "readonly"}

\* "/app", "/tmp", "/home", "/workspace"
allowed_paths == <<<<"/", "app">>, <<"/", "tmp">>, <<"/", "home">>, <<"/", "workspace">>>>

\* The regular expressions of dangerous_patterns, each a sequence of sets of
\* lexemes: a text matches where consecutive lexemes belong to consecutive
\* sets.  (The unescaped dots of the last four match any character; no
\* modelled command line has a "~".)
\* The character ` is written by name.
Backquote == "<backquote>"

MetaChars == {";", "&", "|", Backquote, "$", "(", ")", "{", "}", "[", "]", "\\"}

Literal(lexemes) == [i \in DOMAIN lexemes |-> {lexemes[i]}]

dangerous_patterns ==
    <<<<MetaChars>>,
      Literal(<<"..", "/">>),
      Literal(<<"/", "etc", "/">>),
      Literal(<<"/", "proc", "/">>),
      Literal(<<"/", "sys", "/">>),
      Literal(<<"/", "dev", "/">>),
      Literal(<<"/", "boot", "/">>),
      Literal(<<"/", "root", "/">>),
      Literal(<<"/", "var", "/", "log", "/">>),
      Literal(<<"/", "var", "/", "spool", "/">>),
      Literal(<<"/", "tmp", "/">>),
      Literal(<<"~", "/", ".ssh", "/">>),
      Literal(<<"~", "/", ".gnupg", "/">>),
      Literal(<<"~", "/", ".aws", "/">>),
      Literal(<<"~", "/", ".config", "/">>)>>

\* pattern.search(text)
Search(pattern, text) ==
    \E i \in 0..(Len(text) - Len(pattern)) :
        \A j \in DOMAIN pattern : text[i + j] \in pattern[j]

\* text.startswith(prefix)
StartsWith(text, prefix) ==
    /\ Len(prefix) <= Len(text)
    /\ \A j \in DOMAIN prefix : text[j] = prefix[j]

Contains(text, lexemes) == \E i \in DOMAIN text : text[i] \in lexemes

\* The words of the modelled command lines that begin with a letter.
IdentifierWords ==
    {"cat", "ls", "rm", "nano", "tmp", "app", "etc", "passwd", "HOME", "out", "notes"}

ExecutableArgs == {"cat", "ls", "rm", "nano"}

\* -la  /tmp/test.txt  /tmp  /app/test.txt  /etc/passwd  test.txt
\* ../notes  $HOME  notes;ls  >out
ArgumentArgs ==
    {<<"-la">>,
     <<"/", "tmp", "/", "test.txt">>,
     <<"/", "tmp">>,
     <<"/", "app", "/", "test.txt">>,
     <<"/", "etc", "/", "passwd">>,
     <<"test.txt">>,
     <<"..", "/", "notes">>,
     <<"$", "HOME">>,
     <<"notes", ";", "ls">>,
     <<">", "out">>}

RECURSIVE JoinArgs(_)
JoinArgs(arguments) ==
    IF arguments = <<>> THEN <<>>
    ELSE <<" ">> \o Head(arguments) \o JoinArgs(Tail(arguments))

StrCommand(text) == [type |-> "str", text |-> text]
IntCommand == [type |-> "int", text |-> <<>>]

\* The empty string, blanks only, an unclosed quote, an empty quoted word, a
\* line longer than max_command_length, and an executable with arguments.
CommandArgs ==
    {StrCommand(<<exe>> \o JoinArgs(arguments)) :
        exe \in ExecutableArgs, arguments \in SeqsUpTo(ArgumentArgs, MaxArgs)}
        \cup {StrCommand(<<>>),
              StrCommand(<<" ", " ", " ">>),
              StrCommand(<<"cat", " ", "\"", "notes">>),
              StrCommand(<<"\"", "\"">>),
              StrCommand(<<"cat", " ", "too_long">>),
              IntCommand}

CommandPayloadArgs == {[command |-> c] : c \in CommandArgs} \cup {<<>>}

\* "not command": the empty string (the default when the key is absent).
CommandIsFalsy(command) == command.type = "str" /\ command.text = <<>>

CommandTooLong(command) == Contains(command.text, {"too_long"})

\* shlex.split(command): blanks outside quotes separate the tokens, a quote
\* opens or closes a quoted stretch of the token, and a line that ends
\* inside quotes is a ValueError.
RECURSIVE ShlexSplit(_, _, _, _)
ShlexSplit(rest, token, quoted, parts) ==
    LET closed == IF token = None THEN parts ELSE Append(parts, token[1])
        open == IF token = None THEN <<>> ELSE token[1]
    IN  IF rest = <<>>
        THEN IF quoted THEN [error |-> TRUE, parts |-> <<>>]
             ELSE [error |-> FALSE, parts |-> closed]
        ELSE IF Head(rest) = "\""
        THEN ShlexSplit(Tail(rest), Some(open), ~quoted, parts)
        ELSE IF Head(rest) = " " /\ ~quoted
        THEN ShlexSplit(Tail(rest), None, FALSE, closed)
        ELSE ShlexSplit(Tail(rest), Some(Append(open, Head(rest))), quoted, parts)

shlex_split(text) == ShlexSplit(text, None, FALSE, <<>>)

\* "base_command in names": the token is the one word, and it is in the set.
WordIn(token, names) == Len(token) = 1 /\ token[1] \in names

CommandViolation(type, severity) == [type |-> type, severity |-> severity]

When(condition, violation) == IF condition THEN <<violation>> ELSE <<>>

\* The violations appended for the argument arg.
ArgumentViolations(arg) ==
    When(/\ Contains(arg, {"/"})
         /\ ~\E i \in DOMAIN allowed_paths : StartsWith(arg, allowed_paths[i]),
         CommandViolation("unauthorized_path", "medium"))
    \o When(\E i \in DOMAIN dangerous_patterns : Search(dangerous_patterns[i], arg),
            CommandViolation("dangerous_argument", "high"))

RECURSIVE ArgumentsViolations(_)
ArgumentsViolations(arguments) ==
    IF arguments = <<>> THEN <<>>
    ELSE ArgumentViolations(Head(arguments)) \o ArgumentsViolations(Tail(arguments))

RECURSIVE PatternViolations(_, _)
PatternViolations(patterns, text) ==
    IF patterns = <<>> THEN <<>>
    ELSE When(Search(Head(patterns), text), CommandViolation("dangerous_pattern", "high"))
         \o PatternViolations(Tail(patterns), text)

\* The two regular expressions of the environment variable check: a dollar
\* sign followed by a braced name, or by a name.
UsesVariable(text) ==
    \E i \in DOMAIN text :
        /\ text[i] = "$"
        /\ i < Len(text)
        /\ \/ text[i + 1] \in IdentifierWords
           \/ /\ text[i + 1] = "{"
              /\ \E j \in (i + 2)..Len(text) : text[j] = "}"

\* The checks of execute on a tokenized command, in the order of the source.
CommandViolations(text, parts) ==
    LET base_command == Head(parts)
        arguments == Tail(parts)
    IN  When(WordIn(base_command, blocked_commands),
             CommandViolation("blocked_command", "high"))
        \o When(allowed_commands # {} /\ ~WordIn(base_command, allowed_commands),
                CommandViolation("unauthorized_command", "medium"))
        \o PatternViolations(dangerous_patterns, text)
        \o ArgumentsViolations(arguments)
        \o When(Contains(text, {";", "&", "|", Backquote, "$"}),
                CommandViolation("command_chaining", "critical"))
        \o When(UsesVariable(text), CommandViolation("env_variable", "medium"))
        \o When(Contains(text, {">", "<"}), CommandViolation("redirection", "medium"))

\* "if not command: return payload"
GuardSkips(command) == CommandIsFalsy(command)

guard_execute(p) ==
    LET command == DictGet(p, "command", StrCommand(<<>>))
        split == shlex_split(command.text)
        violations == CommandViolations(command.text, split.parts)
        halt(vs) == Executed("BashGuardHook", p, "returned", HaltPayload(p, vs))
    IN  IF GuardSkips(command) THEN Executed("BashGuardHook", p, "returned", p)
        ELSE IF command.type # "str"
        THEN halt(<<CommandViolation("validation_error", "high")>>)
        ELSE IF CommandTooLong(command)
        THEN halt(<<CommandViolation("command_too_long", "medium")>>)
        ELSE IF split.error
        THEN halt(<<CommandViolation("invalid_syntax", "high")>>)
        ELSE IF split.parts = <<>>
        THEN halt(<<CommandViolation("empty_command", "low")>>)
        ELSE IF violations # <<>> THEN halt(violations)
        ELSE Executed("BashGuardHook", p, "returned", p)

BashGuardExecute ==
    /\ executed.kind = "called"
    /\ executed.hook = "BashGuardHook"
    /\ executed' = guard_execute(executed.payload)
    /\ UNCHANGED outside_security

\* is_command_safe: the quick check.  Anything shlex.split raises on, and an
\* argument that is no string, ends in the bare except.
is_command_safe(command) ==
    IF command.type # "str" THEN FALSE
    ELSE LET split == shlex_split(command.text)
         IN  IF split.error THEN FALSE
             ELSE IF split.parts = <<>> THEN FALSE
             ELSE IF WordIn(Head(split.parts), blocked_commands) THEN FALSE
             ELSE IF allowed_commands # {} /\ ~WordIn(Head(split.parts), allowed_commands)
             THEN FALSE
             ELSE IF \E i \in DOMAIN dangerous_patterns :
                         Search(dangerous_patterns[i], command.text)
             THEN FALSE
             ELSE IF Contains(command.text, {";", "&", "|", Backquote, "$"}) THEN FALSE
             ELSE TRUE

\* The caller that has the answer of execute asks is_command_safe about the
\* command it passed.
IsCommandSafe ==
    /\ executed.hook = "BashGuardHook"
    /\ executed.kind = "returned"
    /\ "safe" \notin DOMAIN executed
    /\ "command" \in DOMAIN executed.payload
    /\ executed' = [hook |-> executed.hook, kind |-> executed.kind,
                    payload |-> executed.payload, returned |-> executed.returned,
                    safe |-> is_command_safe(executed.payload["command"])]
    /\ UNCHANGED outside_security

SecurityInit ==
    /\ LedgerOff
    /\ HooksOff
    /\ MCPOff
    /\ VerifierOff
    /\ CitadelOff
    /\ ReaderOff
    /\ executed \in {Called("ASTScannerHook", p) : p \in CodePayloadArgs}
                        \cup {Called("BashGuardHook", p) : p \in CommandPayloadArgs}

SecurityNext ==
    \/ ASTScannerExecute
    \/ BashGuardExecute
    \/ IsCommandSafe

SpecSecurity == SecurityInit /\ [][SecurityNext]_vars

(***************************************************************************)
(* Properties of the security hooks.                                       *)
(***************************************************************************)
Ended(hook) == executed.hook = hook /\ executed.kind # "called"

HasHalt(d) == "_halt" \in DOMAIN d /\ d["_halt"] = TRUE

AttachedViolations(d) == DictGet(d, "security_violations", <<>>)

ViolationTypes(d) == {AttachedViolations(d)[i].type : i \in DOMAIN AttachedViolations(d)}

\* A text that the scanner scans to the end: every line parses and none is
\* over a length limit.
FullyScanned(code) ==
    /\ code.type = "str"
    /\ \A i \in DOMAIN code.lines :
          code.lines[i].form \in {"import", "import_as", "from", "call", "assign"}

\* The text imports a denylisted module, in any of the three import forms.
ImportsBlockedModule(code) ==
    \E i \in DOMAIN code.lines :
        /\ code.lines[i].form \in {"import", "import_as", "from"}
        /\ code.lines[i].module \in blocked_imports

(***************************************************************************)
(* C26.  ASTScannerHook.execute halts every code payload that imports a    *)
(* denylisted module, whether as "import m", "import m as x" or "from m    *)
(* import x": the returned payload has the halt marker and a violation of  *)
(* type blocked_import.                                                    *)
(***************************************************************************)
C26_BlockedImportHalts ==
    (/\ Ended("ASTScannerHook")
     /\ "code" \in DOMAIN executed.payload
     /\ FullyScanned(executed.payload["code"])
     /\ ImportsBlockedModule(executed.payload["code"]))
        => (/\ executed.kind = "returned"
            /\ HasHalt(executed.returned)
            /\ "blocked_import" \in ViolationTypes(executed.returned))

\* The value under "code" is not empty and the scan of it cannot be
\* completed: a line does not parse, or the value is not a string.
CannotBeScanned(code) ==
    \/ code.type # "str"
    \/ HasLine(code.lines, "broken")

(***************************************************************************)
(* C27.  ASTScannerHook.execute never raises, and a payload whose code is  *)
(* not empty and could not be scanned to the end (a parse failure or an    *)
(* internal error of the scan) is returned with the halt marker set and    *)
(* exactly one violation attached.                                         *)
(***************************************************************************)
C27_UnscannableCodeHalts ==
    Ended("ASTScannerHook")
        => (/\ executed.kind = "returned"
            /\ ("code" \in DOMAIN executed.payload
                  /\ CannotBeScanned(executed.payload["code"]))
                 => (/\ HasHalt(executed.returned)
                     /\ Len(AttachedViolations(executed.returned)) = 1))

\* A text whose only line does not parse is halted as a syntax error.
C27_Witness ==
    /\ Ended("ASTScannerHook")
    /\ executed.payload = [code |-> StrCode(<<Line("broken", "", "")>>)]
    /\ executed.kind = "returned"
    /\ HasHalt(executed.returned)
    /\ ViolationTypes(executed.returned) = {"syntax_error"}

\* The command line meets the conditions of the claim: it tokenizes, its
\* executable is on the allowlist and not on the denylist, it has no shell
\* metacharacter, redirection or variable reference, and each argument with
\* a slash starts with an allowlisted path.  (It is also within the length
\* limit.)
MeetsAllowlist(command) ==
    LET split == shlex_split(command.text)
    IN  /\ command.type = "str"
        /\ ~CommandTooLong(command)
        /\ ~split.error
        /\ split.parts # <<>>
        /\ WordIn(Head(split.parts), allowed_commands)
        /\ ~WordIn(Head(split.parts), blocked_commands)
        /\ ~Contains(command.text, MetaChars \cup {">", "<"})
        /\ ~UsesVariable(command.text)
        /\ \A i \in 2..Len(split.parts) :
              Contains(split.parts[i], {"/"})
                 => \E k \in DOMAIN allowed_paths : StartsWith(split.parts[i], allowed_paths[k])

(***************************************************************************)
(* C28.  BashGuardHook.execute returns un-halted, with no violations       *)
(* attached, every command whose executable is on the allowlist and not on *)
(* the denylist, that contains no shell metacharacter, redirection or      *)
(* variable reference, and whose path arguments all start with an          *)
(* allowlisted path prefix.                                                *)
(***************************************************************************)
C28_AllowlistedCommandPasses ==
    (/\ Ended("BashGuardHook")
     /\ "command" \in DOMAIN executed.payload
     /\ MeetsAllowlist(executed.payload["command"]))
        => (/\ executed.kind = "returned"
            /\ ~HasHalt(executed.returned)
            /\ "security_violations" \notin DOMAIN executed.returned)

\* The command is the empty string or tokenizes to no tokens.
HasNoTokens(command) ==
    /\ command.type = "str"
    /\ ~shlex_split(command.text).error
    /\ shlex_split(command.text).parts = <<>>

(***************************************************************************)
(* C29.  BashGuardHook.execute halts, with an empty_command violation      *)
(* attached, every payload whose command is the empty string or tokenizes  *)
(* to no tokens.                                                           *)
(***************************************************************************)
C29_EmptyCommandHalts ==
    (/\ Ended("BashGuardHook")
     /\ "command" \in DOMAIN executed.payload
     /\ HasNoTokens(executed.payload["command"]))
        => (/\ executed.kind = "returned"
            /\ HasHalt(executed.returned)
            /\ "empty_command" \in ViolationTypes(executed.returned))

(***************************************************************************)
(* Citadel.verify_checksum_integrity (src/src/citadel/__init__.py): the    *)
(* digest of str(transaction without checksum), the text Python prints for *)
(* the dictionary, with the keys in the order in which transfer_funds      *)
(* inserted them and in single quotes, compared with the stored checksum.  *)
(* A digest names the function that produced the text and the text's       *)
(* pairs, so two digests are equal exactly when the two texts are.         *)
(***************************************************************************)
citadel_checksum(transaction) ==
    <<"sha256", "str",
      <<"tx_id", transaction.tx_id>>, <<"from", transaction.from>>, <<"to", transaction.to>>,
      <<"amount", transaction.amount>>, <<"type", transaction.type>>>>

verify_checksum_integrity(transaction) ==
    LET provided_checksum == transaction.checksum
        computed_checksum == citadel_checksum(transaction)
        is_valid == provided_checksum = computed_checksum
    IN  VerificationResult(is_valid, "Checksum Integrity",
                           "Transaction integrity verified via SHA-256",
                           IF is_valid THEN "" ELSE "Checksum mismatch!")

(***************************************************************************)
(* C30.  For every transaction record in the log of the ledger,            *)
(* Citadel.verify_checksum_integrity applied to the stored record returns  *)
(* is_valid = TRUE.                                                        *)
(***************************************************************************)
C30_CitadelAcceptsLedgerRecords ==
    \A i \in 1..Len(ledger.transaction_log) :
        verify_checksum_integrity(ledger.transaction_log[i]).is_valid

(***************************************************************************)
(* Citadel.verify_all_invariants (src/src/citadel/__init__.py).  The       *)
(* checks it makes go to the verifier the Citadel object holds; each is a  *)
(* verify_theorem call whose solver may answer, give up or raise.          *)
(***************************************************************************)
MaxBalance == 1

BalanceArgs == {DEFAULT_DEBT_CEILING - 1} \cup ((0 - 1)..MaxBalance)
TxAmountArgs == (0 - 1)..(MaxBalance + 1)
PayerArgs == {"system_bank", "agent_a", "agent_x"}
PayeeArgs == {"system_bank", "agent_b"}

\* The financials of an account of the ledger state, as create_agent writes
\* them and as a ledger file without a debt ceiling holds them.
FinancialsArgs ==
    {[balance |-> b, debt_ceiling |-> DEFAULT_DEBT_CEILING] : b \in BalanceArgs}
        \cup {[balance |-> b] : b \in BalanceArgs}

\* Ledger states that hold the account agent_a and no other, with a reserve
\* that is not negative.
LedgerStateArgs ==
    {[system_bank |-> [balance |-> r],
      agents |-> [a \in {"agent_a"} |-> [financials |-> f]]] :
        r \in 0..MaxBalance, f \in FinancialsArgs}

\* Transactions that carry the digest verify_checksum_integrity computes, or
\* the digest transfer_funds stores.
TransactionArgs ==
    UNION {LET t0 == [tx_id |-> 1, from |-> p, to |-> q, amount |-> a,
                      type |-> "TRANSFER", checksum |-> <<>>]
           IN  {[t0 EXCEPT !.checksum = citadel_checksum(t0)],
                [t0 EXCEPT !.checksum = compute_transaction_checksum(t0)]} :
              p \in PayerArgs, q \in PayeeArgs, a \in TxAmountArgs}

CheckedTheorems == {"solvency", "debt_ceiling", "non_negative"}

\* What the solver does in each of the checks of a call; without the solver
\* library there is no solver to fail.
FaultArgs ==
    IF Z3_AVAILABLE THEN [CheckedTheorems -> SolverFaults]
    ELSE {[n \in CheckedTheorems |-> "none"]}

\* Z3Verifier.verify_theorem as a function of its arguments and of what the
\* solver does: the result, and whether the call appended it to
\* Z3Verifier.verification_log.
verify_theorem(theorem_name, kw, fault) ==
    IF TheoremLookup(theorem_name) = None
    THEN [result |-> VerificationResult(FALSE, theorem_name, "Unknown theorem",
                                        "Theorem not defined"),
          logged |-> FALSE]
    ELSE LET theorem == TheoremLookup(theorem_name)[1]
         IN  IF ~Z3_AVAILABLE
             THEN [result |-> stub_verify(theorem, kw), logged |-> FALSE]
             ELSE IF fault = "error"
             THEN [result |-> VerificationResult(FALSE, theorem.name,
                                                 "Z3 verification failed", "error"),
                   logged |-> FALSE]
             ELSE LET answer == IF fault = "none" THEN SolverCheck(theorem, kw)
                                ELSE "unknown"
                      is_valid == SolverAnswerValid(answer)
                  IN  [result |-> VerificationResult(
                                      is_valid, theorem.name, "Z3 verification",
                                      IF is_valid THEN "" ELSE "Theorem violation detected"),
                       logged |-> TRUE]

\* ledger_state.get("agents", {}).get(transaction["from"])
AgentState(ledger_state, agent_id) ==
    IF agent_id \in DOMAIN ledger_state.agents
    THEN Some(ledger_state.agents[agent_id]) ELSE None

\* Check 2: verify_solvency, when the payer is not system_bank and is an
\* account of the ledger state.
SolvencyCheck(transaction, ledger_state, faults) ==
    LET agent_state == AgentState(ledger_state, transaction.from)
    IN  IF transaction.from # "system_bank" /\ agent_state # None
        THEN <<verify_theorem("solvency",
                              [balance |-> agent_state[1].financials.balance,
                               transaction_amount |-> transaction.amount],
                              faults["solvency"])>>
        ELSE <<>>

\* Check 3: verify_debt_ceiling, when moreover the account has a debt ceiling.
DebtCeilingCheck(transaction, ledger_state, faults) ==
    LET agent_state == AgentState(ledger_state, transaction.from)
    IN  IF /\ transaction.from # "system_bank"
           /\ agent_state # None
           /\ "debt_ceiling" \in DOMAIN agent_state[1].financials
        THEN <<verify_theorem("debt_ceiling",
                              [balance |-> agent_state[1].financials.balance,
                               debt_ceiling |-> agent_state[1].financials.debt_ceiling],
                              faults["debt_ceiling"])>>
        ELSE <<>>

\* Check 4: non_negative on the balance of system_bank plus the amount, when
\* the recipient is system_bank.
NonNegativeCheck(transaction, ledger_state, faults) ==
    IF transaction.to = "system_bank"
    THEN LET system_balance == ledger_state.system_bank.balance
             new_balance == system_balance + transaction.amount
         IN  <<verify_theorem("non_negative", [balance |-> new_balance],
                              faults["non_negative"])>>
    ELSE <<>>

ResultsOf(calls) == [i \in 1..Len(calls) |-> calls[i].result]
IsLogged(c) == c.logged

\* verify_all_invariants: the checks in the order made, the conjunction of
\* their is_valid, what the calls appended to Citadel.verification_log (the
\* non_negative check is not appended there) and to the verifier's log.
verify_all_invariants(transaction, ledger_state, faults) ==
    LET checksum_result == verify_checksum_integrity(transaction)
        solvency == SolvencyCheck(transaction, ledger_state, faults)
        debt_ceiling_check == DebtCeilingCheck(transaction, ledger_state, faults)
        non_negative == NonNegativeCheck(transaction, ledger_state, faults)
        calls == solvency \o debt_ceiling_check \o non_negative
        checks == <<checksum_result>> \o ResultsOf(calls)
        all_valid == \A i \in DOMAIN checks : checks[i].is_valid
    IN  [all_valid |-> all_valid,
         checks |-> checks,
         verification_log |-> <<checksum_result>> \o ResultsOf(solvency \o debt_ceiling_check),
         verifier_log |-> ResultsOf(SelectSeq(calls, IsLogged))]

CheckedCall(transaction, ledger_state, faults) ==
    [kind |-> "called", transaction |-> transaction,
     ledger_state |-> ledger_state, faults |-> faults]

\* A verify_all_invariants call from its first line to its return.
VerifyAllInvariants ==
    /\ checked.kind = "called"
    /\ LET r == verify_all_invariants(checked.transaction, checked.ledger_state,
                                      checked.faults)
       IN  /\ checked' = [kind |-> "returned", transaction |-> checked.transaction,
                          ledger_state |-> checked.ledger_state,
                          faults |-> checked.faults,
                          all_valid |-> r.all_valid, checks |-> r.checks,
                          verification_log |-> r.verification_log]
           /\ verification_log' = verification_log \o r.verifier_log
    /\ UNCHANGED <<Z3_AVAILABLE, kwargs, verification, solver, caller>>
    /\ UNCHANGED outside_citadel

\* A new Citadel, in a process with or without the solver library, at the
\* start of one verify_all_invariants call.
CitadelInit ==
    /\ LedgerOff
    /\ ReaderOff
    /\ HooksOff
    /\ MCPOff
    /\ SecurityOff
    /\ Z3_AVAILABLE \in BOOLEAN
    /\ kwargs = NoKwargs
    /\ verification_log = <<>>
    /\ verification = NoVerification
    /\ checked \in {CheckedCall(t, l, f) :
                        t \in TransactionArgs, l \in LedgerStateArgs, f \in FaultArgs}
    /\ solver = <<>>
    /\ caller = [c \in Callers |-> NoCaller]

CitadelNext == VerifyAllInvariants

SpecCitadel == CitadelInit /\ [][CitadelNext]_vars

(***************************************************************************)
(* C31.  verify_all_invariants returns valid exactly when every applicable *)
(* check is valid: the checksum check always; the solvency and the debt    *)
(* ceiling check when the payer is not the system reserve; the             *)
(* non-negative check when the recipient is the system reserve.  A check   *)
(* that applies is valid when the call made it and its result is valid.    *)
(***************************************************************************)
CheckValid(theorem) ==
    \E i \in DOMAIN checked.checks :
        checked.checks[i].theorem = theorem /\ checked.checks[i].is_valid

ApplicableChecksValid ==
    /\ CheckValid("Checksum Integrity")
    /\ checked.transaction.from # "system_bank"
           => CheckValid("Solvency Constraint") /\ CheckValid("Debt Ceiling Constraint")
    /\ checked.transaction.to = "system_bank" => CheckValid("Non-Negative Balance")

C31_ValidIffApplicableChecksValid ==
    checked.kind = "returned" => (checked.all_valid <=> ApplicableChecksValid)

(***************************************************************************)
(* C32.  verify_all_invariants never returns valid for a transaction whose *)
(* commit would leave the balance of the system reserve below 0.           *)
(***************************************************************************)
ReserveAfterCommit ==
    checked.ledger_state.system_bank.balance
        - (IF checked.transaction.from = "system_bank" THEN checked.transaction.amount ELSE 0)
        + (IF checked.transaction.to = "system_bank" THEN checked.transaction.amount ELSE 0)

C32_NegativeReserveNeverValid ==
    (checked.kind = "returned" /\ ReserveAfterCommit < 0) => ~checked.all_valid

(***************************************************************************)
(* C33.  Every verify_theorem call, whatever its outcome, appends exactly  *)
(* one VerificationResult, the one it returns, to the verification_log of  *)
(* the verifier, the log get_verification_summary and export_log read.     *)
(***************************************************************************)
C33_EveryCallLogged ==
    [][verification' # verification
           => verification_log' = Append(verification_log, verification'.result)]_vars

(***************************************************************************)
(* C39.  For every command string, is_command_safe(command) is TRUE        *)
(* exactly when execute on a payload carrying that command returns the     *)
(* payload without the halt marker.                                        *)
(***************************************************************************)
C39_QuickCheckAgreesWithExecute ==
    (/\ executed.hook = "BashGuardHook"
     /\ "safe" \in DOMAIN executed
     /\ executed.payload["command"].type = "str")
        => (executed.safe <=> ~HasHalt(executed.returned))

(***************************************************************************)
(* The solver path of verify_theorem with two callers on one verifier      *)
(* (src/src/citadel/verifier.py, lines 130-167).  The verifier has one     *)
(* Solver object, made in __init__; each call pushes a frame on it, adds   *)
(* its assertions, asks check(), and pops.  Solver.add puts an assertion   *)
(* in the topmost frame, check() decides the assertions of all frames      *)
(* together, pop() removes the topmost frame; Real(name) with the same     *)
(* name is the same variable in every call.  A step of the model is one    *)
(* call into the solver library (the additions of a call taken together);  *)
(* between two steps of a caller the other caller may take steps.          *)
(***************************************************************************)
SharedTheorems == {"solvency", "debt_ceiling", "non_negative"}

\* The calls of the callers: a theorem with a value for each of its variables.
CallerArgs ==
    UNION {{[pc |-> "start", name |-> n, kwargs |-> kw, answer |-> "none", result |-> None] :
               kw \in [VariablesOf(define_theorems[n]) -> Values]} : n \in SharedTheorems}

Constraint(expression) == [kind |-> "constraint", expression |-> expression]
Binding(var_name, value) == [kind |-> "binding", var_name |-> var_name, value |-> value]
NotGoal(expression) == [kind |-> "not", expression |-> expression]

\* The assertions one call adds: lines 139-151.
AssertionsOf(theorem, kw) ==
    {Constraint(theorem.constraints[i]) : i \in DOMAIN theorem.constraints}
        \cup {Binding(v, kw[v]) : v \in DOMAIN kw \cap VariablesOf(theorem)}
        \cup {NotGoal(theorem.goal)}

SolverVariables == UNION {VariablesOf(define_theorems[n]) : n \in SharedTheorems}

Holds(assertion, m) ==
    CASE assertion.kind = "constraint" -> Eval(assertion.expression, m)
      [] assertion.kind = "binding" -> m[assertion.var_name] = assertion.value
      [] assertion.kind = "not" -> ~Eval(assertion.expression, m)

\* self.solver.check(): sat exactly when one assignment of the variables
\* satisfies every assertion of every frame.
Check(frames) ==
    IF \E m \in [SolverVariables -> Values \cup SearchValues] :
           \A i \in DOMAIN frames : \A a \in frames[i] : Holds(a, m)
    THEN "sat" ELSE "unsat"

\* self.solver.push()
SolverPush(c) ==
    /\ caller[c].pc = "start"
    /\ solver' = Append(solver, {})
    /\ caller' = [caller EXCEPT ![c].pc = "pushed"]
    /\ UNCHANGED <<checked, verifier_vars>>
    /\ UNCHANGED outside_citadel

\* self.solver.add(...) for the constraints, the bindings and Not(goal).
SolverAdd(c) ==
    /\ caller[c].pc = "pushed"
    /\ solver' = [solver EXCEPT ![Len(solver)] =
                      @ \cup AssertionsOf(define_theorems[caller[c].name], caller[c].kwargs)]
    /\ caller' = [caller EXCEPT ![c].pc = "added"]
    /\ UNCHANGED <<checked, verifier_vars>>
    /\ UNCHANGED outside_citadel

\* result = self.solver.check() == unsat
SolverAsk(c) ==
    /\ caller[c].pc = "added"
    /\ caller' = [caller EXCEPT ![c].pc = "asked", ![c].answer = Check(solver)]
    /\ UNCHANGED <<checked, solver, verifier_vars>>
    /\ UNCHANGED outside_citadel

\* self.solver.pop(), the VerificationResult, the append to the log, return.
SolverPop(c) ==
    /\ caller[c].pc = "asked"
    /\ solver' = SubSeq(solver, 1, Len(solver) - 1)
    /\ LET theorem == define_theorems[caller[c].name]
           is_valid == SolverAnswerValid(caller[c].answer)
           res == VerificationResult(is_valid, theorem.name, "Z3 verification",
                                     IF is_valid THEN "" ELSE "Theorem violation detected")
       IN  /\ caller' = [caller EXCEPT ![c].pc = "done", ![c].result = Some(res)]
           /\ verification_log' = Append(verification_log, res)
    /\ UNCHANGED <<checked, Z3_AVAILABLE, kwargs, verification>>
    /\ UNCHANGED outside_citadel

\* One verifier with the solver library and an empty solver; each caller is
\* at the start of one verify_theorem call, or makes none.
SolverInit ==
    /\ LedgerOff
    /\ ReaderOff
    /\ HooksOff
    /\ MCPOff
    /\ SecurityOff
    /\ Z3_AVAILABLE = TRUE
    /\ kwargs = NoKwargs
    /\ verification_log = <<>>
    /\ verification = NoVerification
    /\ checked = NoChecked
    /\ solver = <<>>
    /\ caller \in [Callers -> CallerArgs \cup {NoCaller}]

SolverNext ==
    \/ \E c \in Callers : SolverPush(c)
    \/ \E c \in Callers : SolverAdd(c)
    \/ \E c \in Callers : SolverAsk(c)
    \/ \E c \in Callers : SolverPop(c)

SpecSolver == SolverInit /\ [][SolverNext]_vars

(***************************************************************************)
(* C34.  When two verify_theorem calls run concurrently on one verifier    *)
(* with the solver backend, each returns the is_valid it returns when it   *)
(* runs alone: the verdict of the solver on its own assertions.            *)
(***************************************************************************)
ValidAlone(c) ==
    SolverAnswerValid(SolverCheck(define_theorems[caller[c].name], caller[c].kwargs))

C34_ConcurrentCallsIndependent ==
    \A c \in Callers :
        caller[c].pc = "done" => caller[c].result[1].is_valid = ValidAlone(c)

(***************************************************************************)
(* A client thread that calls get_agent_balance twice, for the payer and   *)
(* then for the recipient, while other threads call transfer_funds         *)
(* (src/src/economics/ledger.py).  get_agent_balance takes no lock: it     *)
(* reads the ledger as it is at that moment.                               *)
(***************************************************************************)
\* get_agent_balance(from_agent), the first of the two reads.
ReadPayer(t, from_agent, to_agent) ==
    /\ ctor = "ready"
    /\ pc[t] = "idle"
    /\ observed = NoObserved
    /\ from_agent # to_agent
    /\ observed' = [kind |-> "first", by |-> t,
                    payer |-> from_agent, recipient |-> to_agent,
                    payer_balance |-> AgentBalance(ledger, from_agent),
                    recipient_balance |-> None]
    /\ UNCHANGED ledger_vars
    /\ UNCHANGED outside_reader

\* get_agent_balance(to_agent), the second read of the same thread.
ReadRecipient(t) ==
    /\ observed.kind = "first"
    /\ observed.by = t
    /\ pc[t] = "idle"
    /\ observed' = [observed EXCEPT !.kind = "both",
                                    !.recipient_balance =
                                        AgentBalance(ledger, observed.recipient)]
    /\ UNCHANGED ledger_vars
    /\ UNCHANGED outside_reader

\* The engine constructed on a ledger file, threads that transfer funds, and
\* a thread that reads.
ReadsNext ==
    \/ CtorLoad
    \/ \E p \in Procs : PersistAcquire(p)
    \/ \E p \in Procs : PersistOpenTemp(p)
    \/ \E p \in Procs : PersistDump(p)
    \/ \E p \in Procs : PersistReplace(p)
    \/ \E p \in Procs : PersistExit(p)
    \/ \E p \in Procs : PersistFail(p)
    \/ \E t \in Threads : Call(t)
    \/ \E t \in Threads, c \in TransferCalls : Acquire(t, c)
    \/ \E t \in Threads : TransferReject(t)
    \/ \E t \in Threads : TransferDebit(t)
    \/ \E t \in Threads : TransferCredit(t)
    \/ \E t \in Threads : TransferLog(t)
    \/ \E t \in Threads, a, b \in AgentIds : ReadPayer(t, a, b)
    \/ \E t \in Threads : ReadRecipient(t)

SpecReads == Init /\ [][ReadsNext]_vars

(***************************************************************************)
(* C35.  Two get_agent_balance reads of one thread, the payer first and    *)
(* then the recipient, made while another thread executes transfer_funds   *)
(* between those two accounts, never return the payer's balance after the  *)
(* debit together with the recipient's balance before the credit.          *)
(***************************************************************************)
HasDebited(u) == IsTransfer(u) /\ pc[u] \notin {"idle", "lock", "cs"}

C35_ReadsNeverSeeHalfTransfer ==
    \A u \in Threads :
        (/\ observed.kind = "both"
         /\ u # observed.by
         /\ HasDebited(u)
         /\ call[u].from_agent = observed.payer
         /\ call[u].to_agent = observed.recipient
         /\ call[u].amount # 0)
            => ~(/\ observed.payer_balance
                        = Some(Balance(pre[u], observed.payer) - call[u].amount)
                 /\ observed.recipient_balance
                        = Some(Balance(pre[u], observed.recipient)))

====
